---- MODULE Spec2Model ----
(***************************************************************************)
(* Model of the cylo execution core.                                       *)
(*                                                                         *)
(*  Spec         the instance manager (src/instance_manager): a registry   *)
(*               HashMap<String, ManagedInstance> behind one RwLock, used  *)
(*               by concurrent tasks.  Every action is one critical        *)
(*               section of a task (one lock scope) together with the      *)
(*               lock-free code that follows it up to the next lock scope  *)
(*               or await.                                                 *)
(*  SpecBackend  one execute_code call of a backend (src/backends).        *)
(*  SpecRouting  one select_optimal_backend call (src/executor/routing).   *)
(*  SpecExecutor concurrent CyloExecutor::execute calls (src/executor) on  *)
(*               the instance manager.                                     *)
(*  SpecImage    is_valid_image_format of the Apple and Firecracker        *)
(*               backends, applied to one image string.                    *)
(*  SpecPlatform platform detection (src/platform) on one host.            *)
(*  SpecGlobal   the process-wide instance manager                         *)
(*               (src/instance_manager/global.rs).                         *)
(*  SpecMetrics  concurrent update_metrics calls (src/executor/metrics.rs). *)
(*  SpecCache    refresh_platform_cache calls (src/executor/mod.rs).       *)
(*  SpecVm       one Firecracker VM start and execute_code call at the     *)
(*               grain of the API calls (src/backends/firecracker,         *)
(*               src/firecracker).                                         *)
(*  SpecJob      JobManager::create_with_limits (src/backends/windows).    *)
(*  SpecJail     the LandLock code file and command                        *)
(*               (src/backends/landlock).                                  *)
(***************************************************************************)
EXTENDS Integers, Sequences, FiniteSets, TLC

(***************************************************************************)
(* Bounds of the model.                                                    *)
(***************************************************************************)
\* operations (and clock advances) started by all tasks together
MaxOps == 4

\* the concurrent tasks that call into the manager
Procs == {"t1", "t2"}

\* instance ids (CyloInstance::id(): lowercase(variant) + "_" + name)
Ids == {"landlock_a"}

(***************************************************************************)
(* Program constants.                                                      *)
(***************************************************************************)
\* InstanceManager::new: health_check_interval = 60 s
HealthCheckInterval == 60

\* InstanceManager::new: max_idle_time = 300 s
MaxIdleTime == 300

\* remove_instance: while managed.ref_count > 0 && attempts < 30
MaxRemoveAttempts == 30

\* clock advances (seconds) the environment may make in one step
TickSteps == {HealthCheckInterval + 1, MaxIdleTime + 1}

\* backend objects are numbered in creation order
Backends == 1..MaxOps

\* outcomes of awaiting backend.health_check(): a HealthStatus with
\* is_healthy true or false, or a JoinError of the probe task
ProbeOutcomes == {"healthy", "unhealthy", "failed"}

VARIABLES
    \* ---- instance manager ----
    instances,      \* the registry: id -> ManagedInstance (a partial function)
    now,            \* SystemTime::now(), in seconds
    backendId,      \* the backend objects made by create_backend, in creation order: the id each was made for
    task,           \* per task: its position and the locals of its current operation
    out,            \* what the last step did: the task, its operation and, when the
                    \* step returned, the result the caller got
    opCount,        \* number of operations started so far
    \* ---- history of the instance manager ----
    lastProbe,      \* per backend object: outcome of the most recent health probe
    held,           \* per task and backend object: handles obtained and not yet released
    cleaned,        \* backend objects on which cleanup() has been invoked
    lock,           \* per task: the guard of the registry RwLock it holds ("none", "read", "write")
    visible         \* ids whose register returned Ok and that no remove/cleanup/shutdown took out since

imVars == <<instances, now, backendId, task, out, opCount, lastProbe, held, cleaned, lock, visible>>

VARIABLES
    \* ---- one execute_code call of a backend ----
    bk,             \* the backend that runs the call (its backend_type())
    req,            \* the ExecutionRequest
    bpc,            \* where the call is
    child,          \* the process the call spawned: none, running, exited or killed
    hangs,          \* the submitted code never ends by itself
    deadline,       \* request.timeout has elapsed while the child was still running
    res,            \* the ExecutionResult the call returned
    fault,          \* the internal failure that has happened in this call
    files           \* what the call has created on the host file system and not removed

beVars == <<bk, req, bpc, child, hangs, deadline, res, fault, files>>

VARIABLES
    \* ---- the executor (src/executor) ----
    route,          \* one select_optimal_backend call: its inputs and its result
    exCfg,          \* the CyloExecutor: routing_strategy, backend_preferences,
                    \* optimization_config and the cached available backends
    exTask,         \* per task: where its CyloExecutor::execute call is, and its locals
    exOut,          \* what the last step of an execute call did or returned
    running,        \* per backend name: execute_code calls in flight
    metrics,        \* ExecutionMetrics::executions_per_backend
    exCount         \* execute calls started so far

exVars == <<route, exCfg, exTask, exOut, running, metrics, exCount>>

VARIABLES
    \* ---- calls outside the three state machines above ----
    img,            \* one is_valid_image_format call per backend: the image and the answers
    plat,           \* platform detection: the host and what detection reported
    glob            \* the process-wide GLOBAL_INSTANCE_MANAGER and the last call on it

fnVars == <<img, plat, glob>>

VARIABLES
    \* ---- further calls, each with a specification of its own ----
    mtr,            \* the executor's ExecutionMetrics and the update_metrics calls on it
    cache,          \* the executor's platform cache and the refresh_platform_cache calls on it
    vm,             \* one Firecracker VM: its API calls, its process and its files
    job,            \* one Windows Job Object made by JobManager::create_with_limits
    jail            \* one LandLock jail: the code file written and the command prepared

auxVars == <<mtr, cache, vm, job, jail>>

vars == <<imVars, beVars, exVars, fnVars, auxVars>>

(***************************************************************************)
(* Values.                                                                 *)
(***************************************************************************)
\* ManagedInstance { backend, last_accessed, last_health, last_health_check, ref_count }
ManagedInstance(b, accessed, health, checked, refs) ==
    [backend |-> b, last_accessed |-> accessed, last_health |-> health,
     last_health_check |-> checked, ref_count |-> refs]

\* the locals of a task inside an operation:
\*   pc            where it is
\*   arg           the instance id it was called with
\*   backend       the local `backend` of register_instance / get_instance
\*   managed       the (id, ManagedInstance) values moved out of the registry
\*                 (remove_instance, cleanup_idle_instances, shutdown) or
\*                 the (id, backend) snapshot of health_check_all
\*   attempts      remove_instance's `attempts`
\*   to_remove     cleanup_idle_instances' `to_remove`
\*   removed_count cleanup_idle_instances' `removed_count`
\*   started       the number of the call among the calls and clock advances
\*                 so far (set by cleanup_idle_instances, 0 elsewhere)
Locals(c, id, b, m, a, tr, rc) ==
    [pc |-> c, arg |-> id, backend |-> b, managed |-> m, attempts |-> a,
     to_remove |-> tr, removed_count |-> rc, started |-> 0]

Idle == Locals("idle", "", 0, {}, 0, {}, 0)

\* a CyloResult as seen by the caller of operation o: its tag (Ok or the
\* error variant), the name carried by the error or the id of the call, the
\* backend handle, the count, the id list and the id -> health map an Ok
\* carries
Result(o, t, n, h, c, l) ==
    [op |-> o, tag |-> t, name |-> n, handle |-> h, count |-> c, list |-> l,
     health |-> [x \in {} |-> ""]]

\* the operation a position belongs to
OpOfPc(c) ==
    CASE c = "reg_insert" -> "register"
      [] c \in {"get_check", "get_probe", "get_touch"} -> "get"
      [] c = "rm_wait" -> "remove"
      [] c \in {"ci_loop", "ci_cleanup"} -> "cleanup_idle"
      [] c = "sd_cleanup" -> "shutdown"
      [] c = "hc_run" -> "health_check_all"
      [] OTHER -> "none"

\* the record of a step of task p in a call with argument id
Event(p, id, r) == [task |-> p, arg |-> id] @@ r

NoEvent == Event("", "", Result("none", "None", "", 0, 0, {}))

\* HashMap::insert (replaces an existing entry of the same key)
MapInsert(m, k, v) == [x \in (DOMAIN m) \cup {k} |-> IF x = k THEN v ELSE m[x]]

\* HashMap::remove
MapRemove(m, k) == [x \in (DOMAIN m) \ {k} |-> m[x]]

\* RwLock: a read guard can be taken while no other task holds the write
\* guard, a write guard while no other task holds any guard
CanLock(l, p, mode) ==
    /\ l[p] = "none"
    /\ \A q \in Procs \ {p} :
            IF mode = "write" THEN l[q] = "none" ELSE l[q] # "write"

\* mutant: the guard outlives its block
Unlock_Leak(l, p) == l

\* the guard of task p is dropped at the closing brace of its block
Unlock(l, p) == [l EXCEPT ![p] = "none"]

\* `{ let instances = instances_lock.read()...; ... }`: a block of task p that
\* takes the read guard, runs without awaiting, and ends
ReadLocked(p) ==
    /\ CanLock(lock, p, "read")
    /\ lock' = Unlock([lock EXCEPT ![p] = "read"], p)

\* `{ let mut instances = instances_lock.write()...; ... }`
WriteLocked(p) ==
    /\ CanLock(lock, p, "write")
    /\ lock' = Unlock([lock EXCEPT ![p] = "write"], p)

\* a step that takes no guard
NoLock == UNCHANGED lock

\* a task may start another operation
CanStart(p) == task[p].pc = "idle" /\ opCount < MaxOps

\* task p starts an operation
Start(p) == opCount' = opCount + 1

\* task p's operation, called with id, returns r
Return(p, id, r) ==
    /\ task' = [task EXCEPT ![p] = Idle]
    /\ out' = Event(p, id, r)
    /\ UNCHANGED <<beVars, exVars, fnVars, auxVars>>

\* task p's operation goes on with locals l
Goto(p, l) ==
    /\ task' = [task EXCEPT ![p] = l]
    /\ out' = Event(p, l.arg, Result(OpOfPc(l.pc), "Pending", "", 0, 0, {}))
    /\ UNCHANGED <<beVars, exVars, fnVars, auxVars>>

InitIM ==
    /\ instances = [x \in {} |-> 0]
    /\ now = 0
    /\ backendId = <<>>
    /\ task = [p \in Procs |-> Idle]
    /\ out = NoEvent
    /\ opCount = 0
    /\ lastProbe = [b \in Backends |-> "none"]
    /\ lock = [p \in Procs |-> "none"]
    /\ held = [p \in Procs |-> [b \in Backends |-> 0]]
    /\ cleaned = {}
    /\ visible = {}

\* no execute_code call is under way
NoRequest == [language |-> "", timeout_ms |-> 0, input |-> FALSE, zero_limit |-> "none"]

NoExecutionResult ==
    [kind |-> "none", exit_code |-> 0, stderr |-> "", error |-> "none",
     seconds |-> 0, backend |-> ""]

BackendOff ==
    /\ bk = "none"
    /\ req = NoRequest
    /\ bpc = "off"
    /\ child = "none"
    /\ hangs = FALSE
    /\ deadline = FALSE
    /\ res = NoExecutionResult
    /\ fault = "none"
    /\ files = {}

(***************************************************************************)
(* Routing (executor/routing.rs).                                          *)
(***************************************************************************)
\* the backends the router knows
RoutableBackends == {"Apple", "LandLock", "FireCracker"}

\* performance ratings a platform snapshot may carry (those that
\* detect_available_backends assigns)
Ratings == {85, 90, 95}

\* PlatformCache::available_backends: a list of (name, rating) without
\* repeated names
AvailableLists ==
    {s \in UNION {[1..n -> [name : RoutableBackends, rating : Ratings]] : n \in 0..3} :
        \A i, j \in DOMAIN s : s[i].name = s[j].name => i = j}

\* RoutingStrategy
Strategies ==
    {[kind |-> k, preferred |-> ""] :
        k \in {"Performance", "Security", "Balanced", "ExplicitOnly"}}
    \cup {[kind |-> "PreferBackend", preferred |-> b] : b \in RoutableBackends}

\* BackendPreferences::weight_multipliers, in tenths: the default (1.0 for
\* all), one that halves FireCracker, and one that has an entry for Apple
\* only (1.1)
WeightMaps ==
    {[b \in RoutableBackends |-> 10],
     [b \in RoutableBackends |-> IF b = "FireCracker" THEN 5 ELSE 10],
     [b \in {"Apple"} |-> 11]}

\* the names in an available list
AvailableNames(available) == {available[i].name : i \in DOMAIN available}

\* mutant: the exclusion list is not consulted
Candidates_Unfiltered(available, excluded) == available

\* .filter(|(name, _)| !preferences.excluded_backends.contains(name))
Candidates(available, excluded) ==
    SelectSeq(available, LAMBDA e : e.name \notin excluded)

\* Iterator::max_by_key on the rating: of several maximal elements the last
MaxByRating(s) ==
    s[CHOOSE i \in DOMAIN s :
        \A j \in DOMAIN s :
            s[j].rating < s[i].rating \/ (s[j].rating = s[i].rating /\ j <= i)]

\* mutant: FireCracker and LandLock change places
SecurityOrder_Swapped == <<"LandLock", "FireCracker", "Apple">>

\* let security_order = ["FireCracker", "LandLock", "Apple"]
SecurityOrder == <<"FireCracker", "LandLock", "Apple">>

SecurityBonus(b) ==
    CASE b = "FireCracker" -> 20
      [] b = "LandLock" -> 15
      [] b = "Apple" -> 10
      [] OTHER -> 0

\* weight_multipliers.get(name).copied().unwrap_or(1.0), in tenths
Multiplier(weights, b) == IF b \in DOMAIN weights THEN weights[b] ELSE 10

\* (base_score + security_bonus) * preference_multiplier, in tenths
TotalScore(e, weights) ==
    (e.rating + SecurityBonus(e.name)) * Multiplier(weights, e.name)

\* mutant: of several elements with the highest score the last
FirstByScore_LastOfTies(s, weights) ==
    s[CHOOSE i \in DOMAIN s :
        \A j \in DOMAIN s :
            \/ TotalScore(s[j], weights) < TotalScore(s[i], weights)
            \/ (TotalScore(s[j], weights) = TotalScore(s[i], weights) /\ j <= i)]

\* the stable sort by descending score, then first(): of several elements
\* with the highest score the first
FirstByScore(s, weights) ==
    s[CHOOSE i \in DOMAIN s :
        \A j \in DOMAIN s :
            \/ TotalScore(s[j], weights) < TotalScore(s[i], weights)
            \/ (TotalScore(s[j], weights) = TotalScore(s[i], weights) /\ i <= j)]

RouteOk(b) == [tag |-> "Ok", name |-> b]

RouteErr(e) == [tag |-> e, name |-> ""]

SelectPerformance(prefs, available) ==
    LET c == Candidates(available, prefs.excluded) IN
    IF c = <<>> THEN RouteErr("NoBackendAvailable") ELSE RouteOk(MaxByRating(c).name)

SelectSecurity(prefs, available) ==
    LET hits == {i \in DOMAIN SecurityOrder :
                    /\ SecurityOrder[i] \in AvailableNames(available)
                    /\ SecurityOrder[i] \notin prefs.excluded} IN
    IF hits = {} THEN RouteErr("NoBackendAvailable")
    ELSE RouteOk(SecurityOrder[CHOOSE i \in hits : \A j \in hits : i <= j])

SelectBalanced(prefs, available) ==
    LET c == Candidates(available, prefs.excluded) IN
    IF c = <<>> THEN RouteErr("NoBackendAvailable")
    ELSE RouteOk(FirstByScore(c, prefs.weights).name)

\* mutant: the preferred backend is taken whenever it is not excluded
PreferredUsable_Unchecked(strategy, prefs, available) ==
    strategy.preferred \notin prefs.excluded

\* the test of the PreferBackend arm
PreferredUsable(strategy, prefs, available) ==
    /\ strategy.preferred \in AvailableNames(available)
    /\ strategy.preferred \notin prefs.excluded

\* select_optimal_backend
SelectOptimalBackend(strategy, prefs, available) ==
    IF available = <<>> THEN RouteErr("NoBackendAvailable")
    ELSE CASE strategy.kind = "Performance" -> SelectPerformance(prefs, available)
           [] strategy.kind = "Security" -> SelectSecurity(prefs, available)
           [] strategy.kind = "Balanced" -> SelectBalanced(prefs, available)
           [] strategy.kind = "PreferBackend" ->
                IF PreferredUsable(strategy, prefs, available)
                THEN RouteOk(strategy.preferred)
                ELSE SelectBalanced(prefs, available)
           [] strategy.kind = "ExplicitOnly" -> RouteErr("InvalidConfiguration")

\* no select_optimal_backend call is under way
NoRoute ==
    [strategy |-> [kind |-> "none", preferred |-> ""],
     prefs |-> [excluded |-> {}, weights |-> [b \in RoutableBackends |-> 10]],
     available |-> <<>>,
     result |-> RouteErr("none")]

(***************************************************************************)
(* The executor (executor/mod.rs, executor/execution.rs): state.           *)
(***************************************************************************)
\* bound: execute calls per behaviour
MaxExecs == 2

\* execute is called without an instance_hint
NoHint == [env |-> "none", id |-> ""]

\* CyloInstance::id of instance name of environment variant env:
\* lowercase(variant) + "_" + name
InstanceId(env, name) ==
    (CASE env = "Apple" -> "apple"
       [] env = "LandLock" -> "landlock"
       [] env = "FireCracker" -> "firecracker") \o "_" \o name

\* the instances callers pass as instance_hint
HintInstances ==
    {[env |-> b, id |-> InstanceId(b, "a")] : b \in {"LandLock"}}

\* generate_instance_name: a fresh name per call, n standing for the uuid
GenerateInstanceName(b, n) ==
    (CASE b = "Apple" -> "apple"
       [] b = "LandLock" -> "landlock"
       [] b = "FireCracker" -> "firecracker") \o "_" \o ToString(n)

\* the environment variant an instance id belongs to
EnvOfId(id) ==
    CHOOSE b \in RoutableBackends :
        \/ id = InstanceId(b, "a")
        \/ \E n \in 1..(MaxExecs + 1) : id = InstanceId(b, GenerateInstanceName(b, n))

\* the locals of one execute call
ExLocals(c, h, b, id, handle, r) ==
    [pc |-> c, hint |-> h, backend |-> b, id |-> id, handle |-> handle, result |-> r]

ExIdle == ExLocals("idle", NoHint, "", "", 0, NoExecutionResult)

\* what execute returned to its caller in the last step, if it returned:
\* tag is Ok or the error kind, step is where the call ended
ExEvent(p, step, tag, l) ==
    [task |-> p, step |-> step, tag |-> tag, hint |-> l.hint,
     backend |-> l.backend, id |-> l.id, result |-> l.result]

NoExEvent == ExEvent("", "none", "None", ExIdle)

\* no CyloExecutor exists
NoExecutor ==
    [strategy |-> [kind |-> "none", preferred |-> ""],
     prefs |-> [excluded |-> {}, weights |-> [b \in RoutableBackends |-> 10],
                max_concurrent |-> [b \in RoutableBackends |-> 0]],
     reuse |-> FALSE,
     available |-> <<>>]

ExecutorOff ==
    /\ route = NoRoute
    /\ exCfg = NoExecutor
    /\ exTask = [p \in Procs |-> ExIdle]
    /\ exOut = NoExEvent
    /\ running = [b \in RoutableBackends |-> 0]
    /\ metrics = [b \in RoutableBackends |-> 0]
    /\ exCount = 0

(***************************************************************************)
(* Image validation, platform detection, the global manager: state.        *)
(***************************************************************************)
\* no is_valid_image_format call has been made
NoImage == [image |-> <<>>, done |-> FALSE, apple |-> FALSE, firecracker |-> FALSE]

\* no platform detection has run
NoPlatform ==
    [host |-> [os |-> "none", arch |-> "none", landlock |-> FALSE, kvm |-> FALSE],
     step |-> "off",
     capabilities |-> [landlock |-> FALSE, kvm_available |-> FALSE],
     backends |-> <<>>, names |-> <<>>]

\* GLOBAL_INSTANCE_MANAGER is not looked at
NoGlobal ==
    [manager |-> [made_by |-> "off", health_check_interval |-> 0, max_idle_time |-> 0],
     calls |-> 0, inits |-> 0,
     seen |-> [p \in Procs |-> [made_by |-> "off", health_check_interval |-> 0,
                                max_idle_time |-> 0]],
     last |-> [task |-> "", op |-> "none", tag |-> "None",
               manager |-> [made_by |-> "off", health_check_interval |-> 0,
                            max_idle_time |-> 0]]]

\* no update_metrics call, no platform cache, no VM, no job, no jail
NoMetrics == [step |-> "off"]

NoCache == [step |-> "off"]

NoVm == [step |-> "off"]

NoJob == [step |-> "off"]

NoJail == [step |-> "off"]

AuxOff ==
    /\ mtr = NoMetrics
    /\ cache = NoCache
    /\ vm = NoVm
    /\ job = NoJob
    /\ jail = NoJail

FnOff == img = NoImage /\ plat = NoPlatform /\ glob = NoGlobal /\ AuxOff

(***************************************************************************)
(* register_instance (lifecycle.rs).                                       *)
(***************************************************************************)
\* instance.validate()?, the read-locked contains_key check and
\* create_backend(): everything up to the await of the initial health check.
\* `input` is what validate() and create_backend() answer for this instance.
RegisterCheck(p, id, input) ==
    /\ IF input = "invalid" THEN NoLock ELSE ReadLocked(p)
    /\ CanStart(p)
    /\ Start(p)
    /\ IF input = "invalid"
       THEN /\ Return(p, id, Result("register", "ValidationError", id, 0, 0, {}))
            /\ UNCHANGED backendId
       ELSE IF id \in DOMAIN instances
       THEN /\ Return(p, id, Result("register", "InstanceConflict", id, 0, 0, {}))
            /\ UNCHANGED backendId
       ELSE IF input = "unsupported"
       THEN /\ Return(p, id, Result("register", "PlatformUnsupported", id, 0, 0, {}))
            /\ UNCHANGED backendId
       ELSE /\ Goto(p, Locals("reg_insert", id, Len(backendId) + 1, {}, 0, {}, 0))
            /\ backendId' = Append(backendId, id)
    /\ UNCHANGED <<instances, now, lastProbe, held, cleaned, visible>>

\* health_result = backend.health_check().await.ok()
HealthOfProbe(outcome) == IF outcome = "failed" THEN "None" ELSE outcome

\* mutant: an instance whose initial health check failed is not inserted
RegisterInsertMap_HealthyOnly(m, id, managed) ==
    IF managed.last_health = "None" THEN m ELSE MapInsert(m, id, managed)

\* the registry after register_instance's write-locked block
RegisterInsertMap(m, id, managed) == MapInsert(m, id, managed)

\* the initial health check has answered: build the ManagedInstance and
\* insert it under the write lock; return Ok(())
RegisterInsert(p, outcome) ==
    /\ WriteLocked(p)
    /\ task[p].pc = "reg_insert"
    /\ instances' = RegisterInsertMap(instances, task[p].arg,
                        ManagedInstance(task[p].backend, now, HealthOfProbe(outcome), now, 0))
    /\ lastProbe' = [lastProbe EXCEPT ![task[p].backend] = outcome]
    /\ visible' = visible \cup {task[p].arg}
    /\ Return(p, task[p].arg, Result("register", "Ok", "", 0, 0, {}))
    /\ UNCHANGED <<now, backendId, opCount, held, cleaned>>

(***************************************************************************)
(* get_instance (lifecycle.rs).                                            *)
(***************************************************************************)
\* mutant: the error does not carry the id that was asked for
NotFoundResult_Unnamed(id) == Result("get", "InstanceNotFound", "", 0, 0, {})

\* the error of a lookup that finds no entry
NotFoundResult(id) == Result("get", "InstanceNotFound", id, 0, 0, {})

\* first read-locked block: clone the backend handle or fail
GetLookup(p, id) ==
    /\ ReadLocked(p)
    /\ CanStart(p)
    /\ Start(p)
    /\ IF id \in DOMAIN instances
       THEN Goto(p, Locals("get_check", id, instances[id].backend, {}, 0, {}, 0))
       ELSE Return(p, id, NotFoundResult(id))
    /\ UNCHANGED <<instances, now, backendId, lastProbe, held, cleaned, visible>>

\* last.elapsed().unwrap_or(0) > health_check_interval; an entry that has
\* vanished needs no check
NeedsHealthCheck(m, id, t) ==
    IF id \in DOMAIN m
    THEN (IF t >= m[id].last_health_check THEN t - m[id].last_health_check ELSE 0)
            > HealthCheckInterval
    ELSE FALSE

\* second read-locked block
GetCheck(p) ==
    /\ ReadLocked(p)
    /\ task[p].pc = "get_check"
    /\ Goto(p, [task[p] EXCEPT !.pc =
                IF NeedsHealthCheck(instances, task[p].arg, now)
                THEN "get_probe" ELSE "get_touch"])
    /\ UNCHANGED <<instances, now, backendId, opCount, lastProbe, held, cleaned, visible>>

\* the write-locked update after a successful in-line health check
GetProbeUpdate(m, id, t) ==
    IF id \in DOMAIN m
    THEN [m EXCEPT ![id] = [@ EXCEPT !.last_health = "healthy",
                                     !.last_health_check = t,
                                     !.last_accessed = t,
                                     !.ref_count = @ + 1]]
    ELSE m

\* the write-locked update when no health check was needed
GetTouchUpdate(m, id, t) ==
    IF id \in DOMAIN m
    THEN [m EXCEPT ![id] = [@ EXCEPT !.last_accessed = t, !.ref_count = @ + 1]]
    ELSE m

\* what get_instance answers for the outcome of its in-line health check
GetProbeResult(id, b, outcome) ==
    IF outcome = "healthy"
    THEN Result("get", "Ok", "", b, 0, {})
    ELSE Result("get", "BackendUnavailable", id, 0, 0, {})

\* the in-line health check has answered
GetProbe(p, outcome) ==
    /\ IF outcome = "healthy" THEN WriteLocked(p) ELSE NoLock
    /\ task[p].pc = "get_probe"
    /\ lastProbe' = [lastProbe EXCEPT ![task[p].backend] = outcome]
    /\ Return(p, task[p].arg, GetProbeResult(task[p].arg, task[p].backend, outcome))
    /\ IF outcome = "healthy"
       THEN /\ instances' = GetProbeUpdate(instances, task[p].arg, now)
            /\ held' = [held EXCEPT ![p][task[p].backend] = @ + 1]
       ELSE UNCHANGED <<instances, held>>
    /\ UNCHANGED <<now, backendId, opCount, cleaned, visible>>

\* no health check needed: touch the entry and return the handle
GetTouch(p) ==
    /\ WriteLocked(p)
    /\ task[p].pc = "get_touch"
    /\ instances' = GetTouchUpdate(instances, task[p].arg, now)
    /\ held' = [held EXCEPT ![p][task[p].backend] = @ + 1]
    /\ Return(p, task[p].arg, Result("get", "Ok", "", task[p].backend, 0, {}))
    /\ UNCHANGED <<now, backendId, opCount, lastProbe, cleaned, visible>>

(***************************************************************************)
(* release_instance (lifecycle.rs).                                        *)
(***************************************************************************)
\* mutant: the reference is not given back
ReleaseUpdate_Skip(m, id) == m

\* the registry after release_instance
ReleaseUpdate(m, id) ==
    IF id \in DOMAIN m /\ m[id].ref_count > 0
    THEN [m EXCEPT ![id] = [@ EXCEPT !.ref_count = @ - 1]]
    ELSE m

\* the handles task p holds for instance id: backend objects it got from
\* get_instance(id) and has not released
HeldFor(p, id) == {b \in 1..Len(backendId) : held[p][b] > 0 /\ backendId[b] = id}

\* release_instance(id).  `b` is the handle the caller gives up with this
\* call (0: it holds none and releases all the same)
Release(p, id, b) ==
    /\ WriteLocked(p)
    /\ CanStart(p)
    /\ Start(p)
    /\ instances' = ReleaseUpdate(instances, id)
    /\ IF HeldFor(p, id) = {}
       THEN b = 0 /\ UNCHANGED held
       ELSE b \in HeldFor(p, id) /\ held' = [held EXCEPT ![p][b] = @ - 1]
    /\ Return(p, id, Result("release", "Ok", "", b, 0, {}))
    /\ UNCHANGED <<now, backendId, lastProbe, cleaned, visible>>

(***************************************************************************)
(* remove_instance (lifecycle.rs).                                         *)
(***************************************************************************)
\* the value instances.remove(id) moves out of the registry
Taken(m, id) == IF id \in DOMAIN m THEN {[id |-> id, m |-> m[id]]} ELSE {}

\* write-locked block: take the entry out of the registry
RemoveTake(p, id) ==
    /\ WriteLocked(p)
    /\ CanStart(p)
    /\ Start(p)
    /\ instances' = MapRemove(instances, id)
    /\ visible' = visible \ {id}
    /\ IF id \in DOMAIN instances
       THEN Goto(p, Locals("rm_wait", id, 0, Taken(instances, id), 0, {}, 0))
       ELSE Return(p, id, Result("remove", "Ok", "", 0, 0, {}))
    /\ UNCHANGED <<now, backendId, lastProbe, held, cleaned>>

\* the entry remove_instance holds
RemoveManaged(p) == (CHOOSE e \in task[p].managed : TRUE).m

\* the loop condition: managed.ref_count > 0 && attempts < 30
RemoveMustWait(m, a) == m.ref_count > 0 /\ a < MaxRemoveAttempts

\* one tokio::time::sleep(100 ms) of the wait loop
RemovePoll(p) ==
    /\ NoLock
    /\ task[p].pc = "rm_wait"
    /\ RemoveMustWait(RemoveManaged(p), task[p].attempts)
    /\ Goto(p, [task[p] EXCEPT !.attempts = @ + 1])
    /\ UNCHANGED <<instances, now, backendId, opCount, lastProbe, held, cleaned, visible>>

\* the loop has ended: managed.backend.cleanup().await, its error only
\* logged; return Ok(())
RemoveCleanup(p) ==
    /\ NoLock
    /\ task[p].pc = "rm_wait"
    /\ ~RemoveMustWait(RemoveManaged(p), task[p].attempts)
    /\ cleaned' = cleaned \cup {RemoveManaged(p).backend}
    /\ Return(p, task[p].arg, Result("remove", "Ok", "", RemoveManaged(p).backend,
                                      task[p].attempts, {}))
    /\ UNCHANGED <<instances, now, backendId, opCount, lastProbe, held, visible>>

(***************************************************************************)
(* cleanup_idle_instances (maintenance.rs).                                *)
(***************************************************************************)
\* now.duration_since(last_accessed).unwrap_or(0)
IdleTime(m, t) == IF t >= m.last_accessed THEN t - m.last_accessed ELSE 0

\* the test of the scan: idle_time > max_idle_time && ref_count == 0
IsIdle(m, t) == IdleTime(m, t) > MaxIdleTime /\ m.ref_count = 0

\* mutant: the scan collects only the idle instances that are not healthy
IdleIds_NotHealthy(m, t) ==
    {id \in DOMAIN m : IsIdle(m[id], t) /\ m[id].last_health # "healthy"}

\* the ids the scan collects
IdleIds(m, t) == {id \in DOMAIN m : IsIdle(m[id], t)}

\* read-locked scan: collect the ids of the idle instances
CleanupScan(p) ==
    /\ ReadLocked(p)
    /\ CanStart(p)
    /\ Start(p)
    /\ Goto(p, [Locals("ci_loop", "", 0, {}, 0, IdleIds(instances, now), 0)
                    EXCEPT !.started = opCount + 1])
    /\ UNCHANGED <<instances, now, backendId, lastProbe, held, cleaned, visible>>

\* one iteration of the removal loop, first half: the write-locked
\* instances.remove(&instance_id).  The ids come in the iteration order of
\* the HashMap, which is arbitrary.
CleanupTake(p, id) ==
    /\ WriteLocked(p)
    /\ task[p].pc = "ci_loop"
    /\ id \in task[p].to_remove
    /\ instances' = MapRemove(instances, id)
    /\ visible' = visible \ {id}
    /\ Goto(p, [task[p] EXCEPT !.to_remove = @ \ {id},
                               !.arg = id,
                               !.managed = Taken(instances, id),
                               !.pc = IF id \in DOMAIN instances
                                      THEN "ci_cleanup" ELSE "ci_loop"])
    /\ UNCHANGED <<now, backendId, opCount, lastProbe, held, cleaned>>

\* second half: managed.backend.cleanup().await; an instance counts as
\* removed only if its cleanup succeeded
CleanupRun(p, ok) ==
    /\ NoLock
    /\ task[p].pc = "ci_cleanup"
    /\ cleaned' = cleaned \cup {e.m.backend : e \in task[p].managed}
    /\ Goto(p, [task[p] EXCEPT !.pc = "ci_loop",
                               !.managed = {},
                               !.arg = "",
                               !.removed_count = IF ok THEN @ + 1 ELSE @])
    /\ UNCHANGED <<instances, now, backendId, opCount, lastProbe, held, visible>>

\* the loop is over: Ok(removed_count)
CleanupDone(p) ==
    /\ NoLock
    /\ task[p].pc = "ci_loop"
    /\ task[p].to_remove = {}
    /\ Return(p, "", Result("cleanup_idle", "Ok", "", 0, task[p].removed_count, {}))
    /\ UNCHANGED <<instances, now, backendId, opCount, lastProbe, held, cleaned, visible>>

(***************************************************************************)
(* shutdown (maintenance.rs).                                              *)
(***************************************************************************)
\* mutant: the drain leaves the referenced instances in the registry
Drain_KeepReferenced(m) == [x \in {id \in DOMAIN m : m[id].ref_count > 0} |-> m[x]]

\* what HashMap::drain leaves in the map
Drain(m) == [x \in {} |-> 0]

\* write-locked instances.drain().collect()
ShutdownDrain(p) ==
    /\ WriteLocked(p)
    /\ CanStart(p)
    /\ Start(p)
    /\ instances' = Drain(instances)
    /\ visible' = {}
    /\ Goto(p, Locals("sd_cleanup", "", 0,
                      {[id |-> id, m |-> instances[id]] : id \in DOMAIN instances},
                      0, {}, 0))
    /\ UNCHANGED <<now, backendId, lastProbe, held, cleaned>>

\* the cleanup tasks of all drained instances have been awaited; their
\* errors are only logged
ShutdownCleanup(p) ==
    /\ NoLock
    /\ task[p].pc = "sd_cleanup"
    /\ cleaned' = cleaned \cup {e.m.backend : e \in task[p].managed}
    /\ Return(p, "", Result("shutdown", "Ok", "", 0, Cardinality(task[p].managed), {}))
    /\ UNCHANGED <<instances, now, backendId, opCount, lastProbe, held, visible>>

(***************************************************************************)
(* health_check_all (maintenance.rs).                                      *)
(***************************************************************************)
\* read-locked snapshot of the (id, backend) pairs
HealthCheckAllSnapshot(p) ==
    /\ ReadLocked(p)
    /\ CanStart(p)
    /\ Start(p)
    /\ Goto(p, Locals("hc_run", "", 0,
                      {[id |-> id, m |-> instances[id]] : id \in DOMAIN instances},
                      0, {}, 0))
    /\ UNCHANGED <<instances, now, backendId, lastProbe, held, cleaned, visible>>

\* the status health_check_all reports for a probe: a failed check is
\* reported as HealthStatus::unhealthy("Health check failed")
ReportedHealth(outcome) == IF outcome = "failed" THEN "unhealthy" ELSE outcome

\* the probes of the snapshot have been awaited: Ok(results).  The stored
\* health of the instances is left as it is.
HealthCheckAllRun(p) ==
    /\ NoLock
    /\ task[p].pc = "hc_run"
    /\ \E outcomes \in [{e.id : e \in task[p].managed} -> ProbeOutcomes] :
       /\ lastProbe' = [b \in Backends |->
                           IF \E e \in task[p].managed : e.m.backend = b
                           THEN outcomes[(CHOOSE e \in task[p].managed : e.m.backend = b).id]
                           ELSE lastProbe[b]]
       /\ Return(p, "", [Result("health_check_all", "Ok", "", 0, 0, {}) EXCEPT
                    !.health = [id \in DOMAIN outcomes |-> ReportedHealth(outcomes[id])]])
    /\ UNCHANGED <<instances, now, backendId, opCount, held, cleaned, visible>>

(***************************************************************************)
(* list_instances (queries.rs) and the clock.                              *)
(***************************************************************************)
\* instances.keys().cloned().collect()
ListInstances(p) ==
    /\ ReadLocked(p)
    /\ CanStart(p)
    /\ Start(p)
    /\ Return(p, "", Result("list_instances", "Ok", "", 0, 0, DOMAIN instances))
    /\ UNCHANGED <<instances, now, backendId, lastProbe, held, cleaned, visible>>

\* time passes
Tick(p, d) ==
    /\ NoLock
    /\ CanStart(p)
    /\ Start(p)
    /\ now' = now + d
    /\ out' = Event(p, "", Result("tick", "Ok", "", 0, d, {}))
    /\ UNCHANGED <<instances, backendId, task, lastProbe, held, cleaned, visible>>
    /\ UNCHANGED <<beVars, exVars, fnVars, auxVars>>

Next ==
    \/ \E p \in Procs, id \in Ids, input \in {"ok", "invalid", "unsupported"} :
            RegisterCheck(p, id, input)
    \/ \E p \in Procs, o \in ProbeOutcomes : RegisterInsert(p, o)
    \/ \E p \in Procs, id \in Ids : GetLookup(p, id)
    \/ \E p \in Procs : GetCheck(p)
    \/ \E p \in Procs, o \in ProbeOutcomes : GetProbe(p, o)
    \/ \E p \in Procs : GetTouch(p)
    \/ \E p \in Procs, id \in Ids, b \in 0..MaxOps : Release(p, id, b)
    \/ \E p \in Procs, id \in Ids : RemoveTake(p, id)
    \/ \E p \in Procs : RemovePoll(p)
    \/ \E p \in Procs : RemoveCleanup(p)
    \/ \E p \in Procs : CleanupScan(p)
    \/ \E p \in Procs, id \in Ids : CleanupTake(p, id)
    \/ \E p \in Procs, ok \in BOOLEAN : CleanupRun(p, ok)
    \/ \E p \in Procs : CleanupDone(p)
    \/ \E p \in Procs : ShutdownDrain(p)
    \/ \E p \in Procs : ShutdownCleanup(p)
    \/ \E p \in Procs : HealthCheckAllSnapshot(p)
    \/ \E p \in Procs : HealthCheckAllRun(p)
    \/ \E p \in Procs : ListInstances(p)
    \/ \E p \in Procs, d \in TickSteps : Tick(p, d)

Init == InitIM /\ BackendOff /\ ExecutorOff /\ FnOff

Spec == Init /\ [][Next]_vars

(***************************************************************************)
(* One execute_code call of a backend.                                     *)
(***************************************************************************)
BackendKinds == {"LandLock", "FireCracker", "Apple", "WindowsJob"}

Languages == {"python", "PYTHON", "go", "cobol"}

\* request.timeout in milliseconds: below and above one second
Timeouts == {500, 2000}

\* the exit code of a child: success, failure, and none (ended by a signal)
ChildExitCodes == {0, 1, -1}

\* the field of request.limits that is Some(0), if one is
ZeroLimits ==
    {"none", "max_memory", "max_cpu_time", "max_processes", "max_file_size",
     "max_network_bandwidth"}

Requests ==
    [language : Languages, timeout_ms : Timeouts, input : BOOLEAN,
     zero_limit : ZeroLimits]

\* str::to_lowercase on the languages of the model
Lower(l) == IF l = "PYTHON" THEN "python" ELSE l

\* the languages the command dispatch of backend b accepts
DispatchLanguages(b) ==
    IF b = "WindowsJob"
    THEN {"python", "python3", "rust", "javascript", "js", "node", "bash", "sh"}
    ELSE {"python", "python3", "rust", "javascript", "js", "node", "bash", "sh", "go"}

\* supported_languages() of backend b
SupportedLanguages(b) ==
    IF b = "WindowsJob"
    THEN {"python", "python3", "javascript", "js", "node", "rust", "bash", "sh"}
    ELSE {"python", "python3", "javascript", "js", "node", "rust", "bash", "sh", "go"}

\* supports_language: self.supported_languages().contains(&language)
SupportsLanguage(b, l) == l \in SupportedLanguages(b)

\* backend b has a command for language l
Dispatches(b, l) ==
    IF b = "FireCracker"
    THEN l \in DispatchLanguages(b)
    ELSE Lower(l) \in DispatchLanguages(b)

\* Duration::as_secs of a duration in milliseconds
AsSecs(ms) == ms \div 1000

\* ExecutionResult::failure(code, msg): no metadata; err and secs are the
\* error the message was formatted from
Failure(code, msg, err, secs) ==
    [kind |-> "ExecutionResult", exit_code |-> code, stderr |-> msg,
     error |-> err, seconds |-> secs, backend |-> ""]

\* the result built from the output of a child that ended with exit code code
ChildResult(b, code) ==
    [kind |-> "ExecutionResult", exit_code |-> code,
     stderr |-> IF code = 0 THEN "" ELSE "child stderr",
     error |-> "none", seconds |-> 0, backend |-> b]

\* what the inner task of a backend hands to execute_code
InnerOk(code) == [tag |-> "Ok", code |-> code, error |-> "none", seconds |-> 0]

InnerErr(err, secs) == [tag |-> "Err", code |-> 0, error |-> err, seconds |-> secs]

InnerPanic == [tag |-> "Panic", code |-> 0, error |-> "JoinError", seconds |-> 0]

ExecutionFailedMessage(b) ==
    CASE b = "LandLock" -> "LandLock execution failed"
      [] b = "FireCracker" -> "FireCracker execution failed"
      [] b = "Apple" -> "Apple execution failed"
      [] b = "WindowsJob" -> "WindowsJob execution failed"

TaskPanickedMessage(b) ==
    CASE b = "LandLock" -> "LandLock task panicked"
      [] b = "FireCracker" -> "FireCracker execution task panicked"
      [] b = "Apple" -> "Apple execution task failed"

\* mutant: an inner error is reported with the exit code of the child
ExecuteCodeResult_ChildCode(b, inner) ==
    CASE inner.tag = "Ok" -> ChildResult(b, inner.code)
      [] inner.tag = "Err" ->
            Failure(inner.code, ExecutionFailedMessage(b), inner.error, inner.seconds)
      [] inner.tag = "Panic" ->
            Failure(-1, TaskPanickedMessage(b), inner.error, 0)

\* the match of execute_code on what the inner task handed back
ExecuteCodeResult(b, inner) ==
    CASE inner.tag = "Ok" -> ChildResult(b, inner.code)
      [] inner.tag = "Err" ->
            Failure(-1, ExecutionFailedMessage(b), inner.error, inner.seconds)
      [] inner.tag = "Panic" ->
            Failure(-1, TaskPanickedMessage(b), inner.error, 0)

\* execute_code returns r
ReturnResult(r) ==
    /\ res' = r
    /\ bpc' = "returned"

\* tokio::time::timeout polls the inner future first and the timer second
TimeoutResult(innerReady, elapsed) ==
    IF innerReady THEN "Ok" ELSE IF elapsed THEN "Elapsed" ELSE "Pending"

\* the future handed to the timeout is the blocking std wait itself, not a
\* handle to a task that waits
WaitBlocks(b) == b \in {"LandLock", "WindowsJob"}

\* the wait for the child is wrapped in a timeout
UsesTimeout(b, r) == b = "WindowsJob" => AsSecs(r.timeout_ms) > 0

\* the first poll of the wait for the child ends
WaitReturns(b, r, c, elapsed) ==
    IF WaitBlocks(b) \/ ~UsesTimeout(b, r)
    THEN c # "running"
    ELSE TimeoutResult(c # "running", elapsed) # "Pending"

\* what the wait for the child yields once it ends
WaitOutcome(b, r, c, elapsed) ==
    IF UsesTimeout(b, r) THEN TimeoutResult(c # "running", elapsed) ELSE "Ok"

\* the child after the timeout branch ran: SIGKILL to its pid, terminate_all
\* on its job, or nothing
AfterTimeout(b, c) == IF b = "Apple" THEN c ELSE "killed"

\* ---- LandLock: setup_environment, before the task is spawned ----
LandLockSetup(fail) ==
    /\ bk = "LandLock"
    /\ bpc = "start"
    /\ IF fail = "none"
       THEN /\ files' = {"exec_dir"}
            /\ bpc' = "spawn"
            /\ UNCHANGED <<res, fault>>
       ELSE /\ files' = IF fail = "create_dir" THEN {} ELSE {"exec_dir"}
            /\ fault' = fail
            /\ ReturnResult(Failure(-1, "Failed to setup jail environment",
                                    "FileSystemFailed", 0))
    /\ UNCHANGED <<bk, req, child, hangs, deadline>>
    /\ UNCHANGED <<imVars, exVars, fnVars, auxVars>>

\* ---- Apple: ensure_image_available ----
AppleEnsureImage(fail) ==
    /\ bk = "Apple"
    /\ bpc = "start"
    /\ CASE fail = "none" ->
                /\ bpc' = "spawn"
                /\ UNCHANGED <<res, fault>>
         [] fail = "pull" ->
                /\ fault' = fail
                /\ ReturnResult(Failure(-1, "Failed to prepare image",
                                        "ContainerFailed", 0))
         [] fail = "panic" ->
                /\ fault' = fail
                /\ ReturnResult(Failure(-1, "Failed to prepare image task",
                                        "JoinError", 0))
    /\ UNCHANGED <<bk, req, child, hangs, deadline, files>>
    /\ UNCHANGED <<imVars, exVars, fnVars, auxVars>>

\* ---- LandLock and Apple: build the command, spawn the child, write stdin ----
SpawnChild(fail) ==
    /\ bk \in {"LandLock", "Apple"}
    /\ bpc = "spawn"
    /\ IF ~Dispatches(bk, req.language)
       THEN /\ fail = "none"
            /\ fault' = "unsupported_language"
            /\ ReturnResult(ExecuteCodeResult(bk, InnerErr("UnsupportedLanguage", 0)))
            /\ UNCHANGED child
       ELSE CASE fail = "none" ->
                    /\ child' = "running"
                    /\ bpc' = "wait"
                    /\ UNCHANGED <<res, fault>>
              [] fail = "spawn" ->
                    /\ fault' = fail
                    /\ ReturnResult(ExecuteCodeResult(bk, InnerErr("ProcessFailed", 0)))
                    /\ UNCHANGED child
              [] fail = "stdin" ->
                    /\ req.input
                    /\ child' = "running"
                    /\ fault' = fail
                    /\ ReturnResult(ExecuteCodeResult(bk, InnerErr("ProcessFailed", 0)))
              [] fail = "panic" ->
                    /\ fault' = fail
                    /\ ReturnResult(ExecuteCodeResult(bk, InnerPanic))
                    /\ UNCHANGED child
    /\ UNCHANGED <<bk, req, hangs, deadline, files>>
    /\ UNCHANGED <<imVars, exVars, fnVars, auxVars>>

\* ---- WindowsJob: execute_with_job up to the wait ----
WindowsPrepareError(fail) ==
    CASE fail = "temp_dir" -> "Internal"
      [] fail = "limits" -> "Configuration"
      [] fail = "job" -> "Internal"
      [] fail = "unsupported_language" -> "NotAvailable"
      [] OTHER -> "ProcessFailed"

\* the first step of execute_with_job that fails, fail being the one the
\* environment makes fail
WindowsFirstFailure(r, fail) ==
    CASE fail \in {"temp_dir", "code_file"} -> fail
      [] r.zero_limit \in {"max_memory", "max_cpu_time"} -> "limits"
      [] fail = "job" -> fail
      [] ~Dispatches("WindowsJob", r.language) -> "unsupported_language"
      [] OTHER -> fail

WindowsPrepare(fail) ==
    /\ bk = "WindowsJob"
    /\ bpc = "start"
    /\ fail = "stdin" => req.input
    /\ LET first == WindowsFirstFailure(req, fail) IN
        /\ fail \in {"none", first}
        /\ files' = IF first = "temp_dir" THEN {} ELSE {"temp_dir"}
        /\ child' = CASE first \in {"none", "assign"} -> "running"
                      [] first = "stdin" -> "killed"
                      [] OTHER -> "none"
        /\ IF first = "none"
           THEN /\ bpc' = "wait"
                /\ UNCHANGED <<res, fault>>
           ELSE /\ fault' = first
                /\ ReturnResult(ExecuteCodeResult(bk,
                        InnerErr(WindowsPrepareError(first), 0)))
    /\ UNCHANGED <<bk, req, hangs, deadline>>
    /\ UNCHANGED <<imVars, exVars, fnVars, auxVars>>

\* ---- LandLock, Apple and WindowsJob: the wait for the child ----
WaitChild(code, fail) ==
    /\ bk \in {"LandLock", "Apple", "WindowsJob"}
    /\ bpc = "wait"
    /\ WaitReturns(bk, req, child, deadline)
    /\ IF WaitOutcome(bk, req, child, deadline) = "Elapsed"
       THEN /\ code = 0
            /\ fail = "none"
            /\ fault' = "timeout"
            /\ child' = AfterTimeout(bk, child)
            /\ ReturnResult(ExecuteCodeResult(bk,
                    InnerErr("ExecutionTimeout", AsSecs(req.timeout_ms))))
            /\ UNCHANGED files
       ELSE /\ UNCHANGED child
            /\ CASE fail = "none" ->
                        /\ files' = {}
                        /\ ReturnResult(ExecuteCodeResult(bk, InnerOk(code)))
                        /\ UNCHANGED fault
                 [] fail = "wait_io" ->
                        /\ code = 0
                        /\ fault' = fail
                        /\ ReturnResult(ExecuteCodeResult(bk, InnerErr("ProcessFailed", 0)))
                        /\ UNCHANGED files
                 [] fail = "join" ->
                        /\ bk = "Apple"
                        /\ code = 0
                        /\ fault' = fail
                        /\ ReturnResult(ExecuteCodeResult(bk, InnerErr("ProcessFailed", 0)))
                        /\ UNCHANGED files
    /\ UNCHANGED <<bk, req, hangs, deadline>>
    /\ UNCHANGED <<imVars, exVars, fnVars, auxVars>>

\* ---- FireCracker: generate_config ----
FireCrackerConfigure(fail) ==
    /\ bk = "FireCracker"
    /\ bpc = "start"
    /\ IF fail = "none"
       THEN /\ files' = {"config"}
            /\ bpc' = "vm_start"
            /\ UNCHANGED <<res, fault>>
       ELSE /\ fault' = fail
            /\ ReturnResult(Failure(-1, "Failed to generate VM config",
                                    "FileSystemFailed", 0))
            /\ UNCHANGED files
    /\ UNCHANGED <<bk, req, child, hangs, deadline>>
    /\ UNCHANGED <<imVars, exVars, fnVars, auxVars>>

\* ---- FireCracker: VMInstance::start; a failed start returns at once, the
\* VM object and its process are dropped without cleanup ----
FireCrackerStart(fail) ==
    /\ bk = "FireCracker"
    /\ bpc = "vm_start"
    /\ CASE fail = "none" ->
                /\ child' = "running"
                /\ files' = files \cup {"socket", "log"}
                /\ bpc' = "vm_exec"
                /\ UNCHANGED <<res, fault>>
         [] fail = "spawn" ->
                /\ fault' = fail
                /\ ReturnResult(Failure(-1, "Failed to start VM", "ProcessFailed", 0))
                /\ UNCHANGED <<child, files>>
         [] fail = "api" ->
                /\ child' = "running"
                /\ files' = files \cup {"socket", "log"}
                /\ fault' = fail
                /\ ReturnResult(Failure(-1, "Failed to start VM", "InvalidConfig", 0))
         [] fail = "not_ready" ->
                /\ child' = "running"
                /\ files' = files \cup {"socket", "log"}
                /\ fault' = fail
                /\ ReturnResult(Failure(-1, "Failed to start VM", "ContainerFailed", 0))
         [] fail = "panic" ->
                /\ fault' = fail
                /\ ReturnResult(Failure(-1, "VM start task panicked", "JoinError", 0))
                /\ UNCHANGED <<child, files>>
    /\ UNCHANGED <<bk, req, hangs, deadline>>
    /\ UNCHANGED <<imVars, exVars, fnVars, auxVars>>

\* ---- FireCracker: VMInstance::execute; the script runs over SSH with no
\* deadline, so the step ends only when the submitted code does ----
FireCrackerExecute(code, fail) ==
    /\ bk = "FireCracker"
    /\ bpc = "vm_exec"
    /\ IF ~Dispatches(bk, req.language)
       THEN /\ code = 0
            /\ fail = "none"
            /\ fault' = "unsupported_language"
            /\ res' = ExecuteCodeResult(bk, InnerErr("UnsupportedLanguage", 0))
            /\ UNCHANGED files
       ELSE CASE fail = "none" ->
                    /\ ~hangs
                    /\ res' = ExecuteCodeResult(bk, InnerOk(code))
                    /\ UNCHANGED <<fault, files>>
              [] fail = "ssh" ->
                    /\ code = 0
                    /\ fault' = fail
                    /\ files' = files \cup {"script"}
                    /\ res' = ExecuteCodeResult(bk, InnerErr("ProcessFailed", 0))
              [] fail = "panic" ->
                    /\ code = 0
                    /\ fault' = fail
                    /\ res' = ExecuteCodeResult(bk, InnerPanic)
                    /\ UNCHANGED files
    /\ bpc' = "vm_cleanup"
    /\ UNCHANGED <<bk, req, child, hangs, deadline>>
    /\ UNCHANGED <<imVars, exVars, fnVars, auxVars>>

\* ---- FireCracker: VMInstance::cleanup, then the result is returned ----
FireCrackerCleanup ==
    /\ bk = "FireCracker"
    /\ bpc = "vm_cleanup"
    /\ child' = "killed"
    /\ files' = files \ {"socket", "config", "log"}
    /\ bpc' = "returned"
    /\ UNCHANGED <<bk, req, hangs, deadline, res, fault>>
    /\ UNCHANGED <<imVars, exVars, fnVars, auxVars>>

\* ---- the environment: the child ends by itself ----
ChildExits ==
    /\ bk \in {"LandLock", "Apple", "WindowsJob"}
    /\ child = "running"
    /\ ~hangs
    /\ child' = "exited"
    /\ UNCHANGED <<bk, req, bpc, hangs, deadline, res, fault, files>>
    /\ UNCHANGED <<imVars, exVars, fnVars, auxVars>>

\* ---- the environment: request.timeout elapses with the child running ----
DeadlinePasses ==
    /\ bpc \in {"wait", "vm_exec"}
    /\ child = "running"
    /\ ~deadline
    /\ deadline' = TRUE
    /\ UNCHANGED <<bk, req, bpc, child, hangs, res, fault, files>>
    /\ UNCHANGED <<imVars, exVars, fnVars, auxVars>>

NextBackend ==
    \/ \E fail \in {"none", "create_dir", "write_code"} : LandLockSetup(fail)
    \/ \E fail \in {"none", "pull", "panic"} : AppleEnsureImage(fail)
    \/ \E fail \in {"none", "spawn", "stdin", "panic"} : SpawnChild(fail)
    \/ \E fail \in {"none", "temp_dir", "code_file", "job", "spawn", "assign", "stdin"} :
            WindowsPrepare(fail)
    \/ \E code \in ChildExitCodes, fail \in {"none", "wait_io", "join"} :
            WaitChild(code, fail)
    \/ \E fail \in {"none", "write_config"} : FireCrackerConfigure(fail)
    \/ \E fail \in {"none", "spawn", "api", "not_ready", "panic"} : FireCrackerStart(fail)
    \/ \E code \in ChildExitCodes, fail \in {"none", "ssh", "panic"} :
            FireCrackerExecute(code, fail)
    \/ FireCrackerCleanup
    \/ ChildExits
    \/ DeadlinePasses

\* execute_code has been called on a backend with some request
InitBackend ==
    /\ InitIM
    /\ bk \in BackendKinds
    /\ req \in Requests
    /\ bpc = "start"
    /\ child = "none"
    /\ hangs \in BOOLEAN
    /\ deadline = FALSE
    /\ res = NoExecutionResult
    /\ fault = "none"
    /\ files = {}
    /\ ExecutorOff
    /\ FnOff

SpecBackend == InitBackend /\ [][NextBackend]_vars

(***************************************************************************)
(* Properties of execute_code.                                             *)
(***************************************************************************)
\* C9: whatever backend runs the call and whatever fails inside it
\* (environment setup, spawn, unsupported language, timeout, image pull, VM
\* start, task panic), execute_code hands back an ExecutionResult, and after
\* an internal failure that result has exit_code -1 and a message in stderr.
C9_FailuresAreResults ==
    bpc = "returned" =>
        /\ res.kind = "ExecutionResult"
        /\ fault # "none" => res.exit_code = -1 /\ res.stderr # ""

\* C9 witness: a call returned after a task panic, and one could equally
\* have failed otherwise; here the panic of the inner task.
C9_Witness ==
    /\ bpc = "returned"
    /\ fault = "panic"
    /\ res.exit_code = -1
    /\ res.error = "JoinError"

\* C10: a LandLock or Windows Job call whose child is still running when
\* request.timeout elapses can return then, whether or not the child would
\* ever exit, and what it returns is the timeout failure with seconds =
\* request.timeout.as_secs(), the child having been sent a kill.
C10_TimeoutKillsAndReturns ==
    (bk \in {"LandLock", "WindowsJob"} /\ deadline) =>
        /\ bpc = "wait" => ENABLED (\E code \in ChildExitCodes : WaitChild(code, "none"))
        /\ bpc = "returned" =>
                /\ res.exit_code = -1
                /\ res.error = "ExecutionTimeout"
                /\ res.seconds = AsSecs(req.timeout_ms)
                /\ child = "killed"

\* C11: when execute_code returns because request.timeout expired, the
\* child or container started for the run is no longer running, on every
\* backend: a kill was delivered to it before the return.
C11_TimeoutLeavesNoChild ==
    (bpc = "returned" /\ fault = "timeout") => child \in {"killed", "exited"}

\* C13: every ExecutionResult a backend returns, for failed runs as for
\* successful ones, carries metadata["backend"] = backend_type() of the
\* backend that ran it.
C13_ResultNamesBackend ==
    bpc = "returned" => res.backend = bk

\* C14: a call with a language outside the dispatch table returns an
\* unsupported-language failure and leaves none of the files or directories
\* it created (exec-* directory, cylo_* temp directory) behind.
C14_UnsupportedLeavesNoFiles ==
    (bpc = "returned" /\ fault = "unsupported_language") =>
        /\ res.exit_code = -1
        /\ res.error \in {"UnsupportedLanguage", "NotAvailable"}
        /\ files = {}

\* C26: a request with a limit of Some(0) starts no child, and the call
\* returns with an error (whichever step of the call reported it first).
C26_ZeroLimitRejected ==
    req.zero_limit # "none" =>
        /\ child = "none"
        /\ bpc = "returned" => res.error # "none"

\* C23: for the backend and the language of the call, the language is in
\* supported_languages() iff supports_language answers true; the call
\* returns the unsupported-language failure only for a language that the
\* dispatch and supports_language both reject, and starts a child only for
\* a language that the dispatch and supports_language both accept.
C23_LanguageTableAgrees ==
    /\ (req.language \in SupportedLanguages(bk)) <=> SupportsLanguage(bk, req.language)
    /\ fault = "unsupported_language" =>
            ~Dispatches(bk, req.language) /\ ~SupportsLanguage(bk, req.language)
    /\ child # "none" =>
            Dispatches(bk, req.language) /\ SupportsLanguage(bk, req.language)

(***************************************************************************)
(* One select_optimal_backend call.                                        *)
(***************************************************************************)
\* the call returns
SelectBackend ==
    /\ route.result.tag = "none"
    /\ route' = [route EXCEPT !.result =
                    SelectOptimalBackend(route.strategy, route.prefs, route.available)]
    /\ UNCHANGED <<exCfg, exTask, exOut, running, metrics, exCount>>
    /\ UNCHANGED <<imVars, beVars, fnVars, auxVars>>

NextRouting == SelectBackend

\* select_optimal_backend has been called with some strategy, preferences
\* and platform cache
InitRouting ==
    /\ InitIM
    /\ BackendOff
    /\ route \in [strategy : Strategies,
                  prefs : [excluded : SUBSET RoutableBackends, weights : WeightMaps],
                  available : AvailableLists,
                  result : {RouteErr("none")}]
    /\ exCfg = NoExecutor
    /\ exTask = [p \in Procs |-> ExIdle]
    /\ exOut = NoExEvent
    /\ running = [b \in RoutableBackends |-> 0]
    /\ metrics = [b \in RoutableBackends |-> 0]
    /\ exCount = 0
    /\ FnOff

SpecRouting == InitRouting /\ [][NextRouting]_vars

\* the rating of backend b in the available list of the call
RatingOf(b) ==
    route.available[CHOOSE i \in DOMAIN route.available : route.available[i].name = b].rating

\* the available backends of the call that are not excluded
Eligible == AvailableNames(route.available) \ route.prefs.excluded

\* C19: under Performance the call returns an available backend outside
\* the exclusion list whose rating no other such backend exceeds, and
\* NoBackendAvailable exactly when there is no such backend.
C19_PerformancePicksMaxRating ==
    (route.strategy.kind = "Performance" /\ route.result.tag # "none") =>
        IF Eligible = {}
        THEN route.result = RouteErr("NoBackendAvailable")
        ELSE /\ route.result.tag = "Ok"
             /\ route.result.name \in Eligible
             /\ \A b \in Eligible : RatingOf(b) <= RatingOf(route.result.name)

\* C19 witness: an excluded backend has the highest rating of all and the
\* call returned another one
C19_Witness ==
    /\ route.strategy.kind = "Performance"
    /\ route.result.tag = "Ok"
    /\ \E b \in AvailableNames(route.available) \cap route.prefs.excluded :
            RatingOf(b) > RatingOf(route.result.name)

\* C20 as stated: under Security the call returns the first of FireCracker,
\* LandLock, Apple that is available, and NoBackendAvailable when none of
\* the three is available.
C20_SecurityFirstAvailable ==
    (route.strategy.kind = "Security" /\ route.result.tag # "none") =>
        LET hits == {i \in 1..3 : <<"FireCracker", "LandLock", "Apple">>[i]
                                    \in AvailableNames(route.available)} IN
        IF hits = {}
        THEN route.result = RouteErr("NoBackendAvailable")
        ELSE route.result =
                RouteOk(<<"FireCracker", "LandLock", "Apple">>[
                            CHOOSE i \in hits : \A j \in hits : i <= j])

\* C20 amended: under Security the call returns the first of FireCracker,
\* LandLock, Apple that is available and not in the exclusion list, and
\* NoBackendAvailable when none of the three is available and not excluded.
C20_SecurityFirstEligible ==
    (route.strategy.kind = "Security" /\ route.result.tag # "none") =>
        LET order == <<"FireCracker", "LandLock", "Apple">>
            hits == {i \in 1..3 : order[i] \in Eligible} IN
        IF hits = {}
        THEN route.result = RouteErr("NoBackendAvailable")
        ELSE route.result = RouteOk(order[CHOOSE i \in hits : \A j \in hits : i <= j])

\* C20 witness: FireCracker is available but excluded, and the call returned
\* LandLock
C20_Witness ==
    /\ route.strategy.kind = "Security"
    /\ "FireCracker" \in AvailableNames(route.available) \cap route.prefs.excluded
    /\ route.result = RouteOk("LandLock")

\* the score of backend b of the available list of the call, in tenths
ScoreOf(b) == (RatingOf(b) + SecurityBonus(b)) * Multiplier(route.prefs.weights, b)

\* the place of backend b in the available list of the call
PlaceOf(b) == CHOOSE i \in DOMAIN route.available : route.available[i].name = b

\* b is the best of the backends in S: none of S has a higher score, and
\* none with the same score comes before it in the available list
BestOf(b, S) ==
    /\ b \in S
    /\ \A c \in S : \/ ScoreOf(c) < ScoreOf(b)
                    \/ (ScoreOf(c) = ScoreOf(b) /\ PlaceOf(b) <= PlaceOf(c))

\* what Balanced answers for the backends in S
BalancedAnswer(r, S) ==
    IF S = {} THEN r = RouteErr("NoBackendAvailable")
    ELSE r.tag = "Ok" /\ BestOf(r.name, S)

\* C21 as stated: under Balanced the call returns the available backend
\* with the highest score (rating + bonus) x multiplier, of several with
\* that score the one that comes first in the available list.
C21_BalancedBestAvailable ==
    (route.strategy.kind = "Balanced" /\ route.result.tag # "none") =>
        BalancedAnswer(route.result, AvailableNames(route.available))

\* C21 amended: under Balanced the call returns, of the available backends
\* that are not in the exclusion list, the one with the highest score
\* (rating + bonus) x multiplier (bonus FireCracker 20, LandLock 15, Apple
\* 10; a missing multiplier is 1.0), of several with that score the one that
\* comes first in the available list; NoBackendAvailable when there is none.
C21_BalancedBestEligible ==
    (route.strategy.kind = "Balanced" /\ route.result.tag # "none") =>
        BalancedAnswer(route.result, Eligible)

\* C21 witness: two eligible backends share the highest score, one of them
\* has no multiplier of its own, and the call returned the one that comes
\* first
C21_Witness ==
    /\ route.strategy.kind = "Balanced"
    /\ route.result.tag = "Ok"
    /\ \E c \in Eligible \ {route.result.name} :
            /\ ScoreOf(c) = ScoreOf(route.result.name)
            /\ PlaceOf(route.result.name) < PlaceOf(c)
            /\ c \notin DOMAIN route.prefs.weights

\* C22 as stated: under PreferBackend(name) the call returns name when name
\* is available, and otherwise what Balanced returns for the same
\* preferences and platform cache.
C22_PreferredWhenAvailable ==
    (route.strategy.kind = "PreferBackend" /\ route.result.tag # "none") =>
        route.result =
            IF route.strategy.preferred \in AvailableNames(route.available)
            THEN RouteOk(route.strategy.preferred)
            ELSE SelectOptimalBackend([kind |-> "Balanced", preferred |-> ""],
                                      route.prefs, route.available)

\* C22 amended: under PreferBackend(name) the call returns name when name is
\* available and not in the exclusion list, and otherwise what Balanced
\* returns for the same preferences and platform cache.
C22_PreferredWhenEligible ==
    (route.strategy.kind = "PreferBackend" /\ route.result.tag # "none") =>
        route.result =
            IF route.strategy.preferred \in Eligible
            THEN RouteOk(route.strategy.preferred)
            ELSE SelectOptimalBackend([kind |-> "Balanced", preferred |-> ""],
                                      route.prefs, route.available)

\* C22 witness: the preferred backend is not available and the call returned
\* a backend that does not have the highest rating
C22_Witness ==
    /\ route.strategy.kind = "PreferBackend"
    /\ route.strategy.preferred \notin AvailableNames(route.available)
    /\ route.result.tag = "Ok"
    /\ \E c \in Eligible : RatingOf(c) > RatingOf(route.result.name)

(***************************************************************************)
(* CyloExecutor::execute and execute_with_backend.                         *)
(***************************************************************************)
\* the platform snapshots an executor is built from: a host with no
\* backend, an Apple Silicon host
PlatformSnapshots ==
    {<<>>,
     <<[name |-> "Apple", rating |-> 95]>>}

\* the max_concurrent an executor is configured with (update_preferences)
ConcurrencyCaps == {1}

\* the executors of the model
ExecutorConfigs ==
    {[strategy |-> [kind |-> k, preferred |-> ""],
      prefs |-> [excluded |-> {}, weights |-> [b \in RoutableBackends |-> 10],
                 max_concurrent |-> [b \in RoutableBackends |-> c]],
      reuse |-> r,
      available |-> a] :
        k \in {"Security", "ExplicitOnly"}, c \in ConcurrencyCaps,
        r \in BOOLEAN, a \in PlatformSnapshots}

\* the results a backend's execute_code hands back: from a child that ran,
\* from an internal failure, and - on the backend whose wait can time out -
\* from an expired timeout
BackendResults(b) ==
    {ChildResult(b, 0), ChildResult(b, 1),
     ExecuteCodeResult(b, InnerErr("ProcessFailed", 0))}
    \cup (IF WaitBlocks(b) \/ b = "FireCracker" THEN {}
          ELSE {ExecuteCodeResult(b, InnerErr("ExecutionTimeout", 2))})

AllBackendResults == UNION {BackendResults(b) : b \in RoutableBackends}

\* the first match of execute: the hint's backend, or the router's choice
RouteFor(hint, cfg) ==
    IF hint # NoHint
    THEN RouteOk(hint.env)
    ELSE SelectOptimalBackend(cfg.strategy, cfg.prefs, cfg.available)

\* the call of task p goes on at l
ExGoto(p, step, l) ==
    /\ exTask' = [exTask EXCEPT ![p] = l]
    /\ exOut' = NoExEvent

\* execute_with_backend of task p has ended with tag: update_metrics counts
\* the execution, then execute returns
ExReturn(p, step, tag, l) ==
    /\ exTask' = [exTask EXCEPT ![p] = ExIdle]
    /\ exOut' = ExEvent(p, step, tag, l)
    /\ metrics' = [metrics EXCEPT ![l.backend] = @ + 1]

\* execute: route the request and name the instance
ExRoute(p, hint) ==
    /\ exTask[p].pc = "idle"
    /\ exCount < MaxExecs
    /\ exCount' = exCount + 1
    /\ LET r == RouteFor(hint, exCfg) IN
        IF r.tag # "Ok"
        THEN /\ exTask' = exTask
             /\ exOut' = ExEvent(p, "route", r.tag,
                            ExLocals("idle", hint, "", "", 0, NoExecutionResult))
        ELSE ExGoto(p, "route",
                ExLocals(IF exCfg.reuse THEN "ex_register" ELSE "ex_create",
                         hint, r.name,
                         IF hint # NoHint THEN hint.id
                         ELSE InstanceId(r.name, GenerateInstanceName(r.name, exCount + 1)),
                         0, NoExecutionResult))
    /\ UNCHANGED <<route, exCfg, running, metrics>>
    /\ UNCHANGED <<imVars, beVars, fnVars, auxVars>>

\* register_instance up to its health check; an InstanceConflict is ignored
ExRegisterCheck(p, input) ==
    /\ IF input = "invalid" THEN NoLock ELSE ReadLocked(p)
    /\ exTask[p].pc = "ex_register"
    /\ IF input = "invalid"
       THEN /\ ExReturn(p, "register", "ValidationError", exTask[p])
            /\ UNCHANGED backendId
       ELSE IF exTask[p].id \in DOMAIN instances
       THEN /\ input = "ok"
            /\ ExGoto(p, "register", [exTask[p] EXCEPT !.pc = "ex_get"])
            /\ UNCHANGED <<backendId, metrics>>
       ELSE IF input = "unsupported"
       THEN /\ ExReturn(p, "register", "PlatformUnsupported", exTask[p])
            /\ UNCHANGED backendId
       ELSE /\ ExGoto(p, "register", [exTask[p] EXCEPT !.pc = "ex_reg_insert",
                                                        !.handle = Len(backendId) + 1])
            /\ backendId' = Append(backendId, exTask[p].id)
            /\ UNCHANGED metrics
    /\ UNCHANGED <<route, exCfg, running, exCount>>
    /\ UNCHANGED <<instances, now, task, out, opCount, lastProbe, held, cleaned, visible>>
    /\ UNCHANGED <<beVars, fnVars, auxVars>>

\* register_instance: the health check has answered, insert
ExRegisterInsert(p, outcome) ==
    /\ WriteLocked(p)
    /\ exTask[p].pc = "ex_reg_insert"
    /\ instances' = RegisterInsertMap(instances, exTask[p].id,
                        ManagedInstance(exTask[p].handle, now, HealthOfProbe(outcome), now, 0))
    /\ ExGoto(p, "register", [exTask[p] EXCEPT !.pc = "ex_get", !.handle = 0])
    /\ UNCHANGED <<route, exCfg, running, metrics, exCount>>
    /\ UNCHANGED <<now, backendId, task, out, opCount, lastProbe, held, cleaned, visible>>
    /\ UNCHANGED <<beVars, fnVars, auxVars>>

\* get_instance: the lookup
ExGetLookup(p) ==
    /\ ReadLocked(p)
    /\ exTask[p].pc = "ex_get"
    /\ IF exTask[p].id \in DOMAIN instances
       THEN /\ ExGoto(p, "get", [exTask[p] EXCEPT
                        !.pc = "ex_get_check",
                        !.handle = instances[exTask[p].id].backend])
            /\ UNCHANGED metrics
       ELSE ExReturn(p, "get", "InstanceNotFound", exTask[p])
    /\ UNCHANGED <<route, exCfg, running, exCount>>
    /\ UNCHANGED <<imVars, beVars, fnVars, auxVars>>

\* get_instance: is a health check due
ExGetCheck(p) ==
    /\ ReadLocked(p)
    /\ exTask[p].pc = "ex_get_check"
    /\ ExGoto(p, "get", [exTask[p] EXCEPT !.pc =
                IF NeedsHealthCheck(instances, exTask[p].id, now)
                THEN "ex_get_probe" ELSE "ex_get_touch"])
    /\ UNCHANGED <<route, exCfg, running, metrics, exCount>>
    /\ UNCHANGED <<imVars, beVars, fnVars, auxVars>>

\* get_instance: the in-line health check has answered
ExGetProbe(p, outcome) ==
    /\ IF outcome = "healthy" THEN WriteLocked(p) ELSE NoLock
    /\ exTask[p].pc = "ex_get_probe"
    /\ IF outcome = "healthy"
       THEN /\ instances' = GetProbeUpdate(instances, exTask[p].id, now)
            /\ ExGoto(p, "get", [exTask[p] EXCEPT !.pc = "ex_run"])
            /\ UNCHANGED metrics
       ELSE /\ ExReturn(p, "get", "BackendUnavailable", exTask[p])
            /\ UNCHANGED instances
    /\ UNCHANGED <<route, exCfg, running, exCount>>
    /\ UNCHANGED <<now, backendId, task, out, opCount, lastProbe, held, cleaned, visible>>
    /\ UNCHANGED <<beVars, fnVars, auxVars>>

\* get_instance: no health check due, touch the entry
ExGetTouch(p) ==
    /\ WriteLocked(p)
    /\ exTask[p].pc = "ex_get_touch"
    /\ instances' = GetTouchUpdate(instances, exTask[p].id, now)
    /\ ExGoto(p, "get", [exTask[p] EXCEPT !.pc = "ex_run"])
    /\ UNCHANGED <<route, exCfg, running, metrics, exCount>>
    /\ UNCHANGED <<now, backendId, task, out, opCount, lastProbe, held, cleaned, visible>>
    /\ UNCHANGED <<beVars, fnVars, auxVars>>

\* no instance reuse: create a temporary backend
ExCreate(p, ok) ==
    /\ exTask[p].pc = "ex_create"
    /\ IF ok
       THEN /\ ExGoto(p, "create", [exTask[p] EXCEPT !.pc = "ex_run",
                                                      !.handle = Len(backendId) + 1])
            /\ backendId' = Append(backendId, exTask[p].id)
            /\ UNCHANGED metrics
       ELSE /\ ExReturn(p, "create", "PlatformUnsupported", exTask[p])
            /\ UNCHANGED backendId
    /\ UNCHANGED <<route, exCfg, running, exCount>>
    /\ UNCHANGED <<instances, now, task, out, opCount, lastProbe, held, cleaned, lock, visible>>
    /\ UNCHANGED <<beVars, fnVars, auxVars>>

\* backend.execute_code(request) starts on the backend the handle points to
ExRunStart(p) ==
    /\ exTask[p].pc = "ex_run"
    /\ running' = [running EXCEPT ![EnvOfId(backendId[exTask[p].handle])] = @ + 1]
    /\ ExGoto(p, "run", [exTask[p] EXCEPT !.pc = "ex_running"])
    /\ UNCHANGED <<route, exCfg, metrics, exCount>>
    /\ UNCHANGED <<imVars, beVars, fnVars, auxVars>>

\* backend.execute_code(request) hands back r
ExRunEnd(p, r) ==
    /\ exTask[p].pc = "ex_running"
    /\ r \in BackendResults(EnvOfId(backendId[exTask[p].handle]))
    /\ running' = [running EXCEPT ![EnvOfId(backendId[exTask[p].handle])] = @ - 1]
    /\ ExGoto(p, "ran", [exTask[p] EXCEPT !.pc = "ex_finish", !.result = r])
    /\ UNCHANGED <<route, exCfg, metrics, exCount>>
    /\ UNCHANGED <<imVars, beVars, fnVars, auxVars>>

\* what execute_with_backend returns for the backend's result
ExecuteResultTag(r) == "Ok"

\* release the reference (instance reuse) or remove the instance (no
\* reuse; the wait of remove_instance for holders is modelled in Spec), then
\* return Ok(result)
ExFinish(p) ==
    /\ WriteLocked(p)
    /\ exTask[p].pc = "ex_finish"
    /\ IF exCfg.reuse
       THEN /\ instances' = ReleaseUpdate(instances, exTask[p].id)
            /\ UNCHANGED cleaned
       ELSE /\ instances' = MapRemove(instances, exTask[p].id)
            /\ cleaned' = cleaned \cup {e.m.backend : e \in Taken(instances, exTask[p].id)}
    /\ ExReturn(p, "finish", ExecuteResultTag(exTask[p].result), exTask[p])
    /\ UNCHANGED <<route, exCfg, running, exCount>>
    /\ UNCHANGED <<now, backendId, task, out, opCount, lastProbe, held, visible>>
    /\ UNCHANGED <<beVars, fnVars, auxVars>>

\* the environment: more than the health check interval passes between two
\* calls
ExTick ==
    /\ NoLock
    /\ \A p \in Procs : exTask[p].pc = "idle"
    /\ now <= HealthCheckInterval
    /\ now' = now + HealthCheckInterval + 1
    /\ UNCHANGED exVars
    /\ UNCHANGED <<instances, backendId, task, out, opCount, lastProbe, held, cleaned, visible>>
    /\ UNCHANGED <<beVars, fnVars, auxVars>>

NextExecutor ==
    \/ \E p \in Procs, hint \in {NoHint} \cup HintInstances : ExRoute(p, hint)
    \/ \E p \in Procs, input \in {"ok", "invalid", "unsupported"} : ExRegisterCheck(p, input)
    \/ \E p \in Procs, o \in ProbeOutcomes : ExRegisterInsert(p, o)
    \/ \E p \in Procs : ExGetLookup(p)
    \/ \E p \in Procs : ExGetCheck(p)
    \/ \E p \in Procs, o \in ProbeOutcomes : ExGetProbe(p, o)
    \/ \E p \in Procs : ExGetTouch(p)
    \/ \E p \in Procs, ok \in BOOLEAN : ExCreate(p, ok)
    \/ \E p \in Procs : ExRunStart(p)
    \/ \E p \in Procs, r \in AllBackendResults : ExRunEnd(p, r)
    \/ \E p \in Procs : ExFinish(p)
    \/ ExTick

\* an executor has been built; nothing is registered
InitExecutor ==
    /\ InitIM
    /\ BackendOff
    /\ route = NoRoute
    /\ exCfg \in ExecutorConfigs
    /\ exTask = [p \in Procs |-> ExIdle]
    /\ exOut = NoExEvent
    /\ running = [b \in RoutableBackends |-> 0]
    /\ metrics = [b \in RoutableBackends |-> 0]
    /\ exCount = 0
    /\ FnOff

SpecExecutor == InitExecutor /\ [][NextExecutor]_vars

(***************************************************************************)
(* Properties of the executor.                                             *)
(***************************************************************************)
\* C12: when the run of an execute call timed out, the call returns an
\* error of kind ExecutionTimeout, not Ok with an ExecutionResult.
C12_TimeoutIsAnError ==
    (exOut.step = "finish" /\ exOut.result.error = "ExecutionTimeout") =>
        exOut.tag = "ExecutionTimeout"

\* C15: the executions running at the same time on a backend never exceed
\* backend_preferences.max_concurrent of that backend.
C15_ConcurrencyCapped ==
    \A b \in RoutableBackends : running[b] <= exCfg.prefs.max_concurrent[b]

\* C18: under ExplicitOnly, execute without an instance_hint fails with
\* InvalidConfiguration and registers and runs nothing; with an
\* instance_hint it routes to the backend of the hint's environment variant
\* and the run takes place on a backend of that variant.
C18_ExplicitOnlyNeedsHint ==
    /\ (exCfg.strategy.kind = "ExplicitOnly" /\ exOut.step = "route"
            /\ exOut.hint = NoHint) =>
            exOut.tag = "InvalidConfiguration"
    /\ \A p \in Procs :
            (exCfg.strategy.kind = "ExplicitOnly" /\ exTask[p].pc # "idle") =>
                /\ exTask[p].hint # NoHint
                /\ exTask[p].backend = exTask[p].hint.env
                /\ exTask[p].pc = "ex_running" =>
                        EnvOfId(backendId[exTask[p].handle]) = exTask[p].hint.env

\* the calls of execute_with_backend whose get_instance(id) has succeeded
\* and whose release_instance(id) is still to come
ExHolders(id) ==
    {p \in Procs : exTask[p].id = id /\ exTask[p].pc \in {"ex_run", "ex_running", "ex_finish"}}

\* C30: with instance_reuse, the step that ends a call whose get succeeded
\* (it comes after execute_code has handed back its result) releases the
\* instance once: a ref_count above 0 goes down by exactly one and nothing
\* else in the registry changes; a call that ends in register or get leaves
\* the registry as it is; so no instance counts more references than there
\* are calls between their get and their release, and ref_count is back at
\* 0 when no call is under way.
C30_ReleaseBalancesGet ==
    /\ [](exCfg.reuse =>
            \A id \in DOMAIN instances :
                instances[id].ref_count <= Cardinality(ExHolders(id)))
    /\ [][exCfg.reuse =>
            /\ \A p \in Procs :
                    (exTask[p].pc = "ex_finish" /\ exTask'[p].pc = "idle") =>
                        /\ exTask[p].result # NoExecutionResult
                        /\ DOMAIN instances' = DOMAIN instances
                        /\ \A id \in DOMAIN instances :
                                instances'[id] =
                                    IF id = exTask[p].id /\ instances[id].ref_count > 0
                                    THEN [instances[id] EXCEPT !.ref_count = @ - 1]
                                    ELSE instances[id]
            /\ (exOut'.step \in {"register", "get"} /\ exOut'.tag # "Ok") =>
                    instances' = instances]_vars

\* two calls with instance reuse ran on the same instance at the same time,
\* and both have returned Ok
C30_Witness ==
    /\ exCfg.reuse
    /\ exOut.step = "finish"
    /\ exOut.tag = "Ok"
    /\ \A p \in Procs : exTask[p].pc = "idle"
    /\ metrics["LandLock"] = 2
    /\ \E id \in DOMAIN instances :
            instances[id].ref_count = 0 /\ instances[id].last_accessed > 0

\* C31: with instance_reuse disabled, the step that ends a call after
\* execute_code leaves the instance out of the registry and has had cleanup()
\* invoked on the backend object the request ran on.
C31_NoReuseEvicts ==
    [][~exCfg.reuse =>
            \A p \in Procs :
                (exTask[p].pc = "ex_finish" /\ exTask'[p].pc = "idle") =>
                    /\ exTask[p].id \notin DOMAIN instances'
                    /\ exTask[p].handle \in cleaned']_vars

\* the registry entries the executor made for calls without instance_hint
\* that were routed to backend b
GeneratedEntries(b) ==
    {id \in DOMAIN instances :
        \E n \in 1..(MaxExecs + 1) : id = InstanceId(b, GenerateInstanceName(b, n))}

\* C32: with instance_reuse, the calls without instance_hint routed to one
\* backend share one registered instance: the registry never holds more
\* than one entry made for such calls per backend.
C32_OneInstancePerBackend ==
    exCfg.reuse =>
        \A b \in RoutableBackends : Cardinality(GeneratedEntries(b)) <= 1

(***************************************************************************)
(* is_valid_image_format (apple/validation.rs, firecracker/backend.rs).    *)
(***************************************************************************)
\* longest image string of the model
MaxImageLen == 4

\* the characters of the model: a letter, the separators a name may hold,
\* the colon, and a character neither part may hold
ImageChars == {"a", "/", ".", ":", "@"}

\* image strings, as sequences of characters
Images == UNION {[1..n -> ImageChars] : n \in 0..MaxImageLen}

\* char::is_alphanumeric
IsAlphanumeric(c) == c = "a"

\* str::contains(':')
ContainsColon(s) == \E i \in DOMAIN s : s[i] = ":"

\* image.splitn(2, ':').collect(): the text before the first colon and the
\* whole text after it, or the text alone when it has no colon
SplitN2(s) ==
    IF ~ContainsColon(s) THEN <<s>>
    ELSE LET k == CHOOSE i \in DOMAIN s : s[i] = ":" /\ \A j \in 1..(i - 1) : s[j] # ":"
         IN <<SubSeq(s, 1, k - 1), SubSeq(s, k + 1, Len(s))>>

\* the closure of the name test
IsNameChar(c) == IsAlphanumeric(c) \/ c = "/" \/ c = "-" \/ c = "_" \/ c = "."

\* mutant: the tag may hold what the name may hold
IsTagChar_AsName(c) == IsNameChar(c)

\* the closure of the tag test
IsTagChar(c) == IsAlphanumeric(c) \/ c = "." \/ c = "-" \/ c = "_"

\* apple/validation.rs is_valid_image_format
AppleIsValidImageFormat(image) ==
    IF ~ContainsColon(image) THEN FALSE
    ELSE LET parts == SplitN2(image) IN
         IF Len(parts) # 2 THEN FALSE
         ELSE LET name == parts[1]
                  tag == parts[2] IN
              IF name = <<>> \/ ~(\A i \in DOMAIN name : IsNameChar(name[i])) THEN FALSE
              ELSE IF tag = <<>> \/ ~(\A i \in DOMAIN tag : IsTagChar(tag[i])) THEN FALSE
              ELSE TRUE

\* FireCrackerBackend::is_valid_image_format
FireCrackerIsValidImageFormat(image) ==
    IF ~ContainsColon(image) THEN FALSE
    ELSE LET parts == SplitN2(image) IN
         IF Len(parts) # 2 THEN FALSE
         ELSE LET name == parts[1]
                  tag == parts[2] IN
              IF name = <<>> \/ ~(\A i \in DOMAIN name : IsNameChar(name[i])) THEN FALSE
              ELSE IF tag = <<>> \/ ~(\A i \in DOMAIN tag : IsTagChar(tag[i])) THEN FALSE
              ELSE TRUE

\* both validators are asked about the image
ValidateImage ==
    /\ ~img.done
    /\ img' = [img EXCEPT !.done = TRUE,
                          !.apple = AppleIsValidImageFormat(img.image),
                          !.firecracker = FireCrackerIsValidImageFormat(img.image)]
    /\ UNCHANGED <<plat, glob, auxVars>>
    /\ UNCHANGED <<imVars, beVars, exVars>>

NextImage == ValidateImage

InitImage ==
    /\ InitIM
    /\ BackendOff
    /\ ExecutorOff
    /\ img \in [image : Images, done : {FALSE}, apple : {FALSE}, firecracker : {FALSE}]
    /\ plat = NoPlatform
    /\ glob = NoGlobal
    /\ AuxOff

SpecImage == InitImage /\ [][NextImage]_vars

\* the places of the colons in s
Colons(s) == {i \in DOMAIN s : s[i] = ":"}

\* C24: is_valid_image_format answers true exactly for name:tag with exactly
\* one colon, a non-empty name of alphanumerics and - _ . /, and a non-empty
\* tag of alphanumerics and - _ . ; the Apple and the Firecracker validator
\* give the same answer.
C24_ImageFormat ==
    img.done =>
        /\ img.apple <=>
            /\ Cardinality(Colons(img.image)) = 1
            /\ LET k == CHOOSE i \in Colons(img.image) : TRUE IN
                /\ k > 1
                /\ k < Len(img.image)
                /\ \A i \in 1..(k - 1) :
                        img.image[i] \in {"a", "-", "_", ".", "/"}
                /\ \A i \in (k + 1)..Len(img.image) :
                        img.image[i] \in {"a", "-", "_", "."}
        /\ img.firecracker <=> img.apple

\* C24 witness: an image with a registry path in its name was accepted
C24_Witness ==
    /\ img.done
    /\ img.apple
    /\ \E i \in DOMAIN img.image : img.image[i] = "/"

(***************************************************************************)
(* Platform detection (platform/detection.rs, capabilities.rs, api.rs).    *)
(***************************************************************************)
\* the hosts of the model: the operating system and architecture the build
\* runs on, whether the kernel has LandLock and whether /dev/kvm exists (both
\* are features of Linux)
Hosts ==
    {h \in [os : {"Linux", "MacOS", "Windows", "Unknown"},
            arch : {"Arm64", "X86_64", "Arm", "X86", "Unknown"},
            landlock : BOOLEAN, kvm : BOOLEAN] :
        (h.landlock \/ h.kvm) => h.os = "Linux"}

\* has_landlock_support(): the body is `false`
HasLandlockSupport(host) == FALSE

\* has_kvm_support(): Path::new("/dev/kvm").exists()
HasKvmSupport(host) == host.kvm

\* BackendAvailability
BackendAvailability(name, available, reason, rating) ==
    [name |-> name, available |-> available, reason |-> reason,
     performance_rating |-> rating]

\* detect_available_backends
DetectAvailableBackends(os, arch, capabilities) ==
    (IF os = "MacOS" /\ arch = "Arm64"
     THEN <<BackendAvailability("Apple", TRUE,
                "Running on macOS with Apple Silicon", 95)>>
     ELSE <<>>)
    \o (IF capabilities.landlock
        THEN <<BackendAvailability("LandLock", TRUE,
                "LandLock is supported by the kernel", 85)>>
        ELSE <<>>)
    \o (IF capabilities.kvm_available
        THEN <<BackendAvailability("FireCracker", TRUE,
                "KVM is available for hardware virtualization", 90)>>
        ELSE <<>>)

\* detect_capabilities: the security and virtualization features
DetectCapabilities ==
    /\ plat.step = "start"
    /\ plat' = [plat EXCEPT !.step = "capabilities",
                            !.capabilities = [landlock |-> HasLandlockSupport(plat.host),
                                              kvm_available |-> HasKvmSupport(plat.host)]]
    /\ UNCHANGED <<img, glob, auxVars>>
    /\ UNCHANGED <<imVars, beVars, exVars>>

\* PlatformInfo::detect: the list of backends
DetectBackends ==
    /\ plat.step = "capabilities"
    /\ plat' = [plat EXCEPT !.step = "detected",
                            !.backends = DetectAvailableBackends(plat.host.os,
                                            plat.host.arch, plat.capabilities)]
    /\ UNCHANGED <<img, glob, auxVars>>
    /\ UNCHANGED <<imVars, beVars, exVars>>

\* get_available_backends: the names of the entries with available set
GetAvailableBackends ==
    /\ plat.step = "detected"
    /\ plat' = [plat EXCEPT !.step = "listed",
                            !.names = [i \in DOMAIN SelectSeq(plat.backends,
                                                LAMBDA b : b.available) |->
                                        SelectSeq(plat.backends,
                                                LAMBDA b : b.available)[i].name]]
    /\ UNCHANGED <<img, glob, auxVars>>
    /\ UNCHANGED <<imVars, beVars, exVars>>

NextPlatform == DetectCapabilities \/ DetectBackends \/ GetAvailableBackends

InitPlatform ==
    /\ InitIM
    /\ BackendOff
    /\ ExecutorOff
    /\ img = NoImage
    /\ plat \in [host : Hosts, step : {"start"},
                 capabilities : {[landlock |-> FALSE, kvm_available |-> FALSE]},
                 backends : {<<>>}, names : {<<>>}]
    /\ glob = NoGlobal
    /\ AuxOff

SpecPlatform == InitPlatform /\ [][NextPlatform]_vars

\* detection reports backend b as available
ReportedAvailable(b) ==
    \E i \in DOMAIN plat.backends :
        plat.backends[i].name = b /\ plat.backends[i].available

\* C25: after detection, Apple is reported available iff the host is macOS
\* on Arm64, LandLock iff it is Linux with LandLock, Firecracker iff it is
\* Linux with KVM; on Linux the list has an entry for LandLock and one for
\* Firecracker, and an entry that is not available has a non-empty reason.
C25_DetectionMatchesHost ==
    plat.step \in {"detected", "listed"} =>
        /\ ReportedAvailable("Apple") <=>
                (plat.host.os = "MacOS" /\ plat.host.arch = "Arm64")
        /\ ReportedAvailable("LandLock") <=>
                (plat.host.os = "Linux" /\ plat.host.landlock)
        /\ ReportedAvailable("FireCracker") <=>
                (plat.host.os = "Linux" /\ plat.host.kvm)
        /\ plat.host.os = "Linux" =>
                \A b \in {"LandLock", "FireCracker"} :
                    \E i \in DOMAIN plat.backends : plat.backends[i].name = b
        /\ \A i \in DOMAIN plat.backends :
                ~plat.backends[i].available => plat.backends[i].reason # ""

(***************************************************************************)
(* The global instance manager (instance_manager/global.rs):               *)
(* static GLOBAL_INSTANCE_MANAGER: OnceLock<InstanceManager>.               *)
(***************************************************************************)
\* calls of the two functions made by all tasks together
MaxGlobalCalls == 4

\* the (health_check_interval, max_idle_time) arguments of
\* init_global_instance_manager, in seconds
GlobalConfigs == [health_check_interval : {30, 60}, max_idle_time : {300, 600}]

\* the OnceLock before any value was stored in it
UnsetManager == [made_by |-> "unset", health_check_interval |-> 0, max_idle_time |-> 0]

\* (glob.seen[p] is the manager the last global_instance_manager() call of
\* task p returned.)
\* InstanceManager::new(): the default intervals.  made_by tells the
\* managers built by different constructor calls apart.
InstanceManagerNew ==
    [made_by |-> "get", health_check_interval |-> HealthCheckInterval,
     max_idle_time |-> MaxIdleTime]

\* InstanceManager::with_config(config, health_check_interval, max_idle_time)
InstanceManagerWithConfig(c) ==
    [made_by |-> "init", health_check_interval |-> c.health_check_interval,
     max_idle_time |-> c.max_idle_time]

\* mutant: set stores the value even when the cell is full
OnceLockSet_Overwrite(cell, value) == value

\* OnceLock::set: the content of the cell afterwards
OnceLockSet(cell, value) == IF cell = UnsetManager THEN value ELSE cell

\* OnceLock::get_or_init: the content of the cell afterwards, which is
\* also the value returned
OnceLockGetOrInit(cell, value) == IF cell = UnsetManager THEN value ELSE cell

\* init_global_instance_manager(config, health_check_interval, max_idle_time):
\* builds the manager, then set(manager).map_err(|_| "... already initialized")
InitGlobalInstanceManager(p, c) ==
    /\ glob.manager.made_by # "off"
    /\ glob.calls < MaxGlobalCalls
    /\ LET ok == glob.manager = UnsetManager
       IN glob' = [manager |-> OnceLockSet(glob.manager, InstanceManagerWithConfig(c)),
                   calls |-> glob.calls + 1,
                   inits |-> glob.inits + (IF ok THEN 1 ELSE 0),
                   seen |-> glob.seen,
                   last |-> [task |-> p, op |-> "init",
                             tag |-> IF ok THEN "Ok" ELSE "Err",
                             manager |-> UnsetManager]]
    /\ UNCHANGED <<img, plat, auxVars>>
    /\ UNCHANGED <<imVars, beVars, exVars>>

\* global_instance_manager(): GLOBAL_INSTANCE_MANAGER.get_or_init(InstanceManager::new)
GlobalInstanceManager(p) ==
    /\ glob.manager.made_by # "off"
    /\ glob.calls < MaxGlobalCalls
    /\ LET m == OnceLockGetOrInit(glob.manager, InstanceManagerNew)
       IN glob' = [manager |-> m,
                   calls |-> glob.calls + 1,
                   inits |-> glob.inits,
                   seen |-> [glob.seen EXCEPT ![p] = m],
                   last |-> [task |-> p, op |-> "get", tag |-> "Ok", manager |-> m]]
    /\ UNCHANGED <<img, plat, auxVars>>
    /\ UNCHANGED <<imVars, beVars, exVars>>

NextGlobal ==
    \/ \E p \in Procs, c \in GlobalConfigs : InitGlobalInstanceManager(p, c)
    \/ \E p \in Procs : GlobalInstanceManager(p)

InitGlobal ==
    /\ InitIM
    /\ BackendOff
    /\ ExecutorOff
    /\ img = NoImage
    /\ plat = NoPlatform
    /\ glob = [manager |-> UnsetManager, calls |-> 0, inits |-> 0,
               seen |-> [p \in Procs |-> UnsetManager],
               last |-> NoGlobal.last]
    /\ AuxOff

SpecGlobal == InitGlobal /\ [][NextGlobal]_vars

\* C27: init_global_instance_manager succeeds at most once in a process and
\* returns an error whenever the global manager already exists (made by an
\* earlier init or by an earlier global_instance_manager()); a manager, once
\* made, is never replaced, and every global_instance_manager() call returns
\* the manager that is in the cell.
C27_GlobalManagerSetOnce ==
    [][/\ glob'.inits <= 1
       /\ glob.manager # UnsetManager => glob'.manager = glob.manager
       /\ (glob'.last.op = "init" /\ glob.manager # UnsetManager) =>
                glob'.last.tag = "Err"
       /\ glob'.last.op = "get" =>
                /\ glob'.last.manager = glob'.manager
                /\ glob'.manager # UnsetManager
       /\ \A p \in Procs :
                glob'.seen[p] # UnsetManager => glob'.seen[p] = glob'.manager]_vars

\* global_instance_manager() made the manager with the default intervals,
\* and a later init_global_instance_manager with other intervals failed
C27_Witness ==
    /\ glob.manager = InstanceManagerNew
    /\ glob.last.op = "init"
    /\ glob.last.tag = "Err"
    /\ glob.inits = 0
    /\ \A p \in Procs : glob.seen[p] = InstanceManagerNew

(***************************************************************************)
(* update_metrics (executor/metrics.rs) on the executor's                  *)
(* Arc<RwLock<ExecutionMetrics>>, called by concurrent execute calls.      *)
(***************************************************************************)
\* execute calls made by all tasks together
MaxMetricCalls == 3

\* resource_usage.peak_memory of a result
PeakValues == {1, 2}

\* what execute_with_backend hands to update_metrics: an Err, or an Ok
\* result with its peak_memory
MetricResults ==
    {[tag |-> "Err", peak_memory |-> 0]} \cup
    {[tag |-> "Ok", peak_memory |-> v] : v \in PeakValues}

NoPending == [backend |-> "", result |-> [tag |-> "none", peak_memory |-> 0]]

\* mutant: the last result's peak replaces the stored one
UpdatePeak_Overwrite(stored, r) == r.peak_memory

\* if exec_result.resource_usage.peak_memory > resource_stats.peak_memory
\*     { resource_stats.peak_memory = exec_result.resource_usage.peak_memory }
UpdatePeak(stored, r) ==
    IF r.peak_memory > stored THEN r.peak_memory ELSE stored

\* execute of task p: the call is routed to b and execute_with_backend
\* returns r; update_metrics is still to come.  routed and peaks are history:
\* the calls routed to each backend and the peaks of their Ok results.
MetricsExecute(p, b, r) ==
    /\ mtr.step = "on"
    /\ mtr.pending[p] = NoPending
    /\ mtr.calls < MaxMetricCalls
    /\ mtr' = [mtr EXCEPT !.calls = @ + 1,
                          !.pending[p] = [backend |-> b, result |-> r],
                          !.routed[b] = @ + 1,
                          !.peaks[b] = IF r.tag = "Ok" THEN @ \cup {r.peak_memory} ELSE @]
    /\ UNCHANGED <<cache, vm, job, jail>>
    /\ UNCHANGED <<imVars, beVars, exVars, fnVars>>

\* update_metrics: the whole body runs under metrics.write(), without an
\* await inside
UpdateMetrics(p) ==
    /\ mtr.step = "on"
    /\ mtr.pending[p] # NoPending
    /\ LET b == mtr.pending[p].backend
           r == mtr.pending[p].result
       IN mtr' = [mtr EXCEPT !.pending[p] = NoPending,
                             !.executions_per_backend[b] = @ + 1,
                             !.peak_memory[b] =
                                    IF r.tag = "Ok" THEN UpdatePeak(@, r) ELSE @]
    /\ UNCHANGED <<cache, vm, job, jail>>
    /\ UNCHANGED <<imVars, beVars, exVars, fnVars>>

NextMetrics ==
    \/ \E p \in Procs, b \in RoutableBackends, r \in MetricResults : MetricsExecute(p, b, r)
    \/ \E p \in Procs : UpdateMetrics(p)

\* ExecutionMetrics::default(): no entry for any backend
InitMetrics ==
    /\ InitIM
    /\ BackendOff
    /\ ExecutorOff
    /\ img = NoImage /\ plat = NoPlatform /\ glob = NoGlobal
    /\ mtr = [step |-> "on", calls |-> 0,
              pending |-> [p \in Procs |-> NoPending],
              executions_per_backend |-> [b \in RoutableBackends |-> 0],
              peak_memory |-> [b \in RoutableBackends |-> 0],
              routed |-> [b \in RoutableBackends |-> 0],
              peaks |-> [b \in RoutableBackends |-> {}]]
    /\ cache = NoCache /\ vm = NoVm /\ job = NoJob /\ jail = NoJail

SpecMetrics == InitMetrics /\ [][NextMetrics]_vars

\* C33: when every execute call has completed, executions_per_backend[b] is
\* the number of calls routed to b and peak_memory[b] is the largest peak
\* among their results; and no update lowers peak_memory[b].
C33_NoMetricsUpdateLost ==
    /\ []((\A p \in Procs : mtr.pending[p] = NoPending) =>
            \A b \in RoutableBackends :
                /\ mtr.executions_per_backend[b] = mtr.routed[b]
                /\ \A v \in mtr.peaks[b] : v <= mtr.peak_memory[b]
                /\ mtr.peak_memory[b] \in mtr.peaks[b] \cup {0})
    /\ [][\A b \in RoutableBackends : mtr'.peak_memory[b] >= mtr.peak_memory[b]]_vars

\* two concurrent calls on one backend, the larger peak reported first, and a
\* failed call on another backend: all are counted
C33_Witness ==
    /\ \A p \in Procs : mtr.pending[p] = NoPending
    /\ \E b \in RoutableBackends :
            /\ mtr.executions_per_backend[b] = 2
            /\ mtr.peaks[b] = {1, 2}
            /\ mtr.peak_memory[b] = 2
    /\ \E b \in RoutableBackends :
            mtr.executions_per_backend[b] = 1 /\ mtr.peaks[b] = {}

(***************************************************************************)
(* refresh_platform_cache (executor/mod.rs) on the executor's              *)
(* Arc<RwLock<PlatformCache>>, called by concurrent tasks.                 *)
(***************************************************************************)
\* refresh_platform_cache calls made by all tasks together
MaxRefreshCalls == 3

\* the latest time of the model, in seconds
MaxCacheClock == 700

\* CyloExecutor::with_strategy: cache_duration = Duration::from_secs(300)
CacheDuration == 300

\* how far SystemTime::now() advances in one step of the clock
CacheTickSteps == {100, 300}

\* current_time.duration_since(cache.cached_at).unwrap_or(Duration::from_secs(0))
CacheAge(t, cached_at) == IF t >= cached_at THEN t - cached_at ELSE 0

\* mutant: every call refreshes
ShouldRefresh_Always(age, duration) == TRUE

\* cache_age >= cache.cache_duration
ShouldRefresh(age, duration) == age >= duration

\* the read-locked check; a call that needs no refresh returns Ok(())
RefreshCheck(p) ==
    /\ cache.step = "on"
    /\ cache.task[p] = "idle"
    /\ cache.calls < MaxRefreshCalls
    /\ LET age == CacheAge(cache.clock, cache.cached_at)
           go == ShouldRefresh(age, cache.cache_duration)
       IN cache' = [cache EXCEPT !.calls = @ + 1,
                                 !.task[p] = IF go THEN "write" ELSE "idle",
                                 !.last = [task |-> p, op |-> "check", age |-> age,
                                           returned |-> ~go]]
    /\ UNCHANGED <<mtr, vm, job, jail>>
    /\ UNCHANGED <<imVars, beVars, exVars, fnVars>>

\* detect_platform(), the hash, and the write-locked swap: available_backends,
\* capabilities_hash (detection: the detection they come from, by number) and
\* cached_at = SystemTime::now()
RefreshWrite(p) ==
    /\ cache.step = "on"
    /\ cache.task[p] = "write"
    /\ cache' = [cache EXCEPT !.task[p] = "idle",
                              !.detection = @ + 1,
                              !.cached_at = cache.clock,
                              !.last = [task |-> p, op |-> "write",
                                        age |-> CacheAge(cache.clock, cache.cached_at),
                                        returned |-> TRUE]]
    /\ UNCHANGED <<mtr, vm, job, jail>>
    /\ UNCHANGED <<imVars, beVars, exVars, fnVars>>

\* time passes
CacheTick(d) ==
    /\ cache.step = "on"
    /\ cache.clock + d <= MaxCacheClock
    /\ cache' = [cache EXCEPT !.clock = @ + d,
                              !.last = [task |-> "", op |-> "tick", age |-> 0,
                                        returned |-> FALSE]]
    /\ UNCHANGED <<mtr, vm, job, jail>>
    /\ UNCHANGED <<imVars, beVars, exVars, fnVars>>

NextCache ==
    \/ \E p \in Procs : RefreshCheck(p)
    \/ \E p \in Procs : RefreshWrite(p)
    \/ \E d \in CacheTickSteps : CacheTick(d)

\* CyloExecutor::with_strategy: the cache of the first detection, cached_at
\* = SystemTime::now()
InitCache ==
    /\ InitIM
    /\ BackendOff
    /\ ExecutorOff
    /\ img = NoImage /\ plat = NoPlatform /\ glob = NoGlobal
    /\ cache = [step |-> "on", clock |-> 0, calls |-> 0,
                task |-> [p \in Procs |-> "idle"],
                detection |-> 1, cached_at |-> 0, cache_duration |-> CacheDuration,
                last |-> [task |-> "", op |-> "none", age |-> 0, returned |-> FALSE]]
    /\ mtr = NoMetrics /\ vm = NoVm /\ job = NoJob /\ jail = NoJail

SpecCache == InitCache /\ [][NextCache]_vars

ReadyAttempts == 30

VmImpls == {"VMInstance", "FirecrackerVM"}

\* what the API server does with one request: 2xx/204, an HTTP error
\* status, or no response at all (transport error or timeout)
ApiOutcomes == {"success", "error_status", "no_response"}

\* what one GET /metrics finds
MetricPolls == {"running", "starting", "memory_exceeded", "cpu_exceeded", "no_response"}

VmCleanupFiles == {"socket", "config", "log"}

\* VMInstance::start: the API calls in the order the function issues them
VMInstanceStartCalls(network) ==
    <<"machine-config", "boot-source", "drives/rootfs">>
        \o (IF network THEN <<"network-interfaces/eth0">> ELSE <<>>)
        \o <<"actions">>

\* FirecrackerVM::configure_vm: the API calls in the order it issues them
ConfigureVmCalls(network) ==
    <<"boot-source", "machine-config", "drives/rootfs">>
        \o (IF network THEN <<"network-interfaces/eth0">> ELSE <<>>)
        \o <<"actions">>

StartCalls(impl, network) ==
    IF impl = "VMInstance" THEN VMInstanceStartCalls(network)
                           ELSE ConfigureVmCalls(network)

\* whether the caller looks at the status of the response: api_put does for
\* every call; of VMInstance's calls only configure_vm and start_vm do,
\* configure_boot_source / configure_rootfs / configure_network return Ok(())
\* for any response
ChecksStatus(impl, call) ==
    \/ impl = "FirecrackerVM"
    \/ call \in {"machine-config", "actions"}

\* whether the call returns Err
CallFails(impl, call, outcome) ==
    \/ outcome = "no_response"
    \/ outcome = "error_status" /\ ChecksStatus(impl, call)

\* the error a failed call of VMInstance::start carries
CallError(call) ==
    IF call = "actions" THEN "ContainerFailed" ELSE "InvalidConfig"

\* enforce_resource_limits: memory is compared first, then cpu
EnforceResourceLimits(poll) ==
    CASE poll = "memory_exceeded" -> [ok |-> FALSE, error |-> "ResourceLimitExceeded",
                                      resource |-> "memory"]
      [] poll = "cpu_exceeded"    -> [ok |-> FALSE, error |-> "ResourceLimitExceeded",
                                      resource |-> "cpu"]
      [] OTHER                    -> [ok |-> TRUE, error |-> "none", resource |-> "none"]

\* get_vm_metrics: Err(Internal) without a usable response, otherwise the
\* limits are enforced before the metrics are handed out
GetVmMetrics(poll) ==
    IF poll = "no_response"
    THEN [ok |-> FALSE, error |-> "Internal", resource |-> "none", state |-> "none"]
    ELSE LET e == EnforceResourceLimits(poll)
         IN  [ok |-> e.ok, error |-> e.error, resource |-> e.resource,
              state |-> IF e.ok /\ poll = "running" THEN "Running" ELSE "none"]

\* the resource a poll reported over its limit ("none" if it did not)
Reported(poll) ==
    CASE poll = "memory_exceeded" -> "memory"
      [] poll = "cpu_exceeded"    -> "cpu"
      [] OTHER                    -> "none"

VmResult(stderr, error, resource) ==
    [exit_code |-> -1, stderr |-> stderr, error |-> error, resource |-> resource]

VmSuccess(code) ==
    [exit_code |-> code, stderr |-> "", error |-> "none", resource |-> "none"]

NoVmResult == [exit_code |-> 0, stderr |-> "", error |-> "pending", resource |-> "none"]

VmOthersUnchanged ==
    /\ UNCHANGED <<mtr, cache, job, jail>>
    /\ UNCHANGED <<imVars, beVars, exVars, fnVars>>

\* execute_code / start return: the VM object is dropped as it is
VmReturn(stderr, error, resource) ==
    [vm EXCEPT !.pc = "returned", !.pending = "none",
               !.result = VmResult(stderr, error, resource)]

\* ---- VMInstance::generate_config: writes the config file ----
GenerateConfig(fail) ==
    /\ vm.step = "on"
    /\ vm.impl = "VMInstance"
    /\ vm.pc = "generate_config"
    /\ vm' = IF fail
             THEN VmReturn("Failed to generate VM config", "FileSystemFailed", "none")
             ELSE [vm EXCEPT !.pc = "spawn", !.files = @ \cup {"config"}]
    /\ VmOthersUnchanged

\* ---- the firecracker process is spawned and the API client / socket is
\* obtained; fail = "spawn": no process; fail = "client": the process runs
\* but the client (VMInstance) or the socket (FirecrackerVM) is not there ----
SpawnFirecracker(fail) ==
    /\ vm.step = "on"
    /\ vm.pc = "spawn"
    /\ vm' = CASE fail = "none" ->
                    [vm EXCEPT !.pc = "api", !.process = "running",
                               !.files = @ \cup {"socket", "log"}]
               [] fail = "spawn" ->
                    VmReturn("Failed to start VM", "ProcessFailed", "none")
               [] fail = "client" ->
                    [VmReturn("Failed to start VM", "InvalidConfig", "none")
                        EXCEPT !.process = "running", !.files = @ \cup {"log"}]
    /\ VmOthersUnchanged

\* ---- the next API call of the start sequence is sent ----
ApiRequest ==
    /\ vm.step = "on"
    /\ vm.pc = "api"
    /\ vm.pending = "none"
    /\ Len(vm.calls) < Len(StartCalls(vm.impl, vm.network))
    /\ LET call == StartCalls(vm.impl, vm.network)[Len(vm.calls) + 1]
       IN  vm' = [vm EXCEPT !.calls = Append(@, call), !.pending = call]
    /\ VmOthersUnchanged

\* ---- its response (or the lack of one) arrives and the caller goes on ----
ApiResponse(outcome) ==
    /\ vm.step = "on"
    /\ vm.pc = "api"
    /\ vm.pending # "none"
    /\ vm' = IF CallFails(vm.impl, vm.pending, outcome)
             THEN VmReturn("Failed to start VM", CallError(vm.pending), "none")
             ELSE [vm EXCEPT
                      !.pending = "none",
                      !.rejected = IF outcome = "error_status"
                                   THEN @ \cup {vm.pending} ELSE @,
                      !.pc = IF vm.pending # "actions" THEN "api"
                             ELSE IF vm.impl = "VMInstance" THEN "wait_ready"
                             ELSE "returned",
                      !.result = IF vm.pending = "actions" /\ vm.impl = "FirecrackerVM"
                                 THEN VmSuccess(0) ELSE @]
    /\ VmOthersUnchanged

\* ---- wait_for_vm_ready: one attempt of the loop; an Err of the poll is
\* dropped (Err(_) => {}), the last attempt ends the wait ----
WaitForVmReady(poll) ==
    /\ vm.step = "on"
    /\ vm.pc = "wait_ready"
    /\ LET m == GetVmMetrics(poll)
           seen == IF Reported(poll) # "none" THEN Reported(poll) ELSE vm.exceeded
       IN  vm' = IF m.ok /\ m.state = "Running"
                 THEN [vm EXCEPT !.pc = IF vm.ssh THEN "wait_ssh" ELSE "execute"]
                 ELSE IF vm.attempt = ReadyAttempts - 1
                 THEN [VmReturn("Failed to start VM", "ContainerFailed", "none")
                          EXCEPT !.exceeded = seen]
                 ELSE [vm EXCEPT !.attempt = @ + 1, !.exceeded = seen]
    /\ VmOthersUnchanged

\* ---- wait_for_ssh_ready ----
WaitForSshReady(ready) ==
    /\ vm.step = "on"
    /\ vm.pc = "wait_ssh"
    /\ vm' = IF ready
             THEN [vm EXCEPT !.pc = "execute"]
             ELSE VmReturn("Failed to start VM", "ContainerFailed", "none")
    /\ VmOthersUnchanged

\* ---- VMInstance::execute up to the end of the script ----
VmExecute(code, fail) ==
    /\ vm.step = "on"
    /\ vm.pc = "execute"
    /\ vm' = IF ~vm.ssh
             THEN [vm EXCEPT !.pc = "cleanup",
                             !.result = VmResult("execution failed", "InvalidConfig", "none")]
             ELSE CASE fail = "none" ->
                          [vm EXCEPT !.pc = "collect", !.result = VmSuccess(code)]
                    [] fail = "ssh" ->
                          [vm EXCEPT !.pc = "cleanup", !.files = @ \cup {"script"},
                                     !.result = VmResult("execution failed",
                                                         "ProcessFailed", "none")]
                    [] fail = "panic" ->
                          [vm EXCEPT !.pc = "cleanup",
                                     !.result = VmResult("execution task panicked",
                                                         "JoinError", "none")]
    /\ VmOthersUnchanged

\* ---- collect_resource_metrics: Err(_) => ResourceUsage::default() ----
CollectResourceMetrics(poll) ==
    /\ vm.step = "on"
    /\ vm.pc = "collect"
    /\ LET m == GetVmMetrics(poll)
       IN  vm' = [vm EXCEPT !.pc = "cleanup",
                            !.usage = IF m.ok THEN "measured" ELSE "default",
                            !.exceeded = IF Reported(poll) # "none"
                                         THEN Reported(poll) ELSE @]
    /\ VmOthersUnchanged

\* ---- VMInstance::cleanup, then execute_code returns the result ----
VmCleanup ==
    /\ vm.step = "on"
    /\ vm.pc = "cleanup"
    /\ vm' = [vm EXCEPT !.pc = "returned",
                        !.process = IF @ = "running" THEN "terminated" ELSE @,
                        !.files = @ \ VmCleanupFiles]
    /\ VmOthersUnchanged

NextVm ==
    \/ \E fail \in BOOLEAN : GenerateConfig(fail)
    \/ \E fail \in {"none", "spawn", "client"} : SpawnFirecracker(fail)
    \/ ApiRequest
    \/ \E outcome \in ApiOutcomes : ApiResponse(outcome)
    \/ \E poll \in MetricPolls : WaitForVmReady(poll)
    \/ \E ready \in BOOLEAN : WaitForSshReady(ready)
    \/ \E code \in {0, 1}, fail \in {"none", "ssh", "panic"} : VmExecute(code, fail)
    \/ \E poll \in MetricPolls : CollectResourceMetrics(poll)
    \/ VmCleanup

InitVm ==
    /\ InitIM
    /\ BackendOff
    /\ ExecutorOff
    /\ img = NoImage /\ plat = NoPlatform /\ glob = NoGlobal
    /\ \E impl \in VmImpls, network \in BOOLEAN, ssh \in BOOLEAN :
          vm = [step |-> "on", impl |-> impl, network |-> network, ssh |-> ssh,
                pc |-> IF impl = "VMInstance" THEN "generate_config" ELSE "spawn",
                calls |-> <<>>, pending |-> "none", rejected |-> {},
                attempt |-> 0, exceeded |-> "none",
                process |-> "none", files |-> {}, usage |-> "none",
                result |-> NoVmResult]
    /\ mtr = NoMetrics /\ cache = NoCache /\ job = NoJob /\ jail = NoJail

SpecVm == InitVm /\ [][NextVm]_vars

\* the order the start sequence is documented to have
DocumentedStartCalls(network) ==
    <<"machine-config", "boot-source", "drives/rootfs">>
        \o (IF network THEN <<"network-interfaces/eth0">> ELSE <<>>)
        \o <<"actions">>

\* C36: the calls of a VM start are issued in the order machine-config,
\* boot-source, drives/rootfs, network-interfaces/eth0 (only with networking),
\* actions/InstanceStart; none is issued while the previous one is pending; and
\* InstanceStart is never sent after a configuration call got an error answer.
C36_StartCallOrder ==
    /\ [](vm.step = "on" =>
            /\ Len(vm.calls) <= Len(DocumentedStartCalls(vm.network))
            /\ vm.calls = SubSeq(DocumentedStartCalls(vm.network), 1, Len(vm.calls)))
    /\ [][vm.step = "on" /\ vm'.calls # vm.calls =>
            /\ vm.pending = "none"
            /\ vm'.pending = "actions" => vm.rejected = {}]_vars

\* C37: a poll that found memory or cpu over its limit makes the run fail
\* with ResourceLimitExceeded naming that resource, whether the poll was one
\* of wait_for_vm_ready or the one of collect_resource_metrics.
C37_LimitFailureReported ==
    vm.step = "on" /\ vm.impl = "VMInstance" /\ vm.pc = "returned"
        /\ vm.exceeded # "none"
    => /\ vm.result.error = "ResourceLimitExceeded"
       /\ vm.result.resource = vm.exceeded

\* C38: when execute_code returns after the firecracker process was spawned,
\* the process is terminated and the socket, config and log files are gone.
C38_ProcessAndFilesRemoved ==
    vm.step = "on" /\ vm.impl = "VMInstance" /\ vm.pc = "returned"
        /\ vm.process # "none"
    => /\ vm.process = "terminated"
       /\ vm.files \cap VmCleanupFiles = {}

(***************************************************************************)
(* Windows: JobManager::create_with_limits.  An Option is a sequence of at *)
(* most one value.  The job object keeps one LimitFlags field; a           *)
(* SetInformationJobObject call of class JobObjectBasicLimitInformation    *)
(* replaces the basic flags by those it carries.  What it does to the      *)
(* flags that only the extended class can set depends on the system, so    *)
(* both outcomes are taken.                                                *)
(***************************************************************************)

None == <<>>

Some(v) == <<v>>

IsSome(o) == o # None

MemoryLimits == {None, Some(2), Some(4)}

CpuLimits == {None, Some(1), Some(3)}

ProcessLimits == {None, Some(1), Some(2)}

BasicFlags == {"JOB_OBJECT_LIMIT_WORKINGSET", "JOB_OBJECT_LIMIT_JOB_TIME",
               "JOB_OBJECT_LIMIT_ACTIVE_PROCESS"}

ExtendedFlags == {"JOB_OBJECT_LIMIT_KILL_ON_JOB_CLOSE"}

NoJobObject ==
    [exists |-> FALSE, LimitFlags |-> {}, MinimumWorkingSetSize |-> 0,
     MaximumWorkingSetSize |-> 0, PerJobUserTimeLimit |-> 0, ActiveProcessLimit |-> 0]

\* WindowsLimits::has_limits
HasLimits(limits) ==
    \/ IsSome(limits.memory_bytes)
    \/ IsSome(limits.cpu_time_ms)
    \/ IsSome(limits.max_processes)

\* WindowsLimits::process_memory_limit: (max / 2, max)
ProcessMemoryLimit(limits) ==
    IF IsSome(limits.memory_bytes)
    THEN Some([min |-> limits.memory_bytes[1] \div 2, max |-> limits.memory_bytes[1]])
    ELSE None

\* the ExtendedLimitInfo create_with_limits builds: the working-set limit if
\* a memory limit is configured, and kill-on-job-close
LimitInfo(limits) ==
    LET m == ProcessMemoryLimit(limits)
    IN  [exists |-> TRUE,
         LimitFlags |-> (IF IsSome(m) THEN {"JOB_OBJECT_LIMIT_WORKINGSET"} ELSE {})
                            \cup {"JOB_OBJECT_LIMIT_KILL_ON_JOB_CLOSE"},
         MinimumWorkingSetSize |-> IF IsSome(m) THEN m[1].min ELSE 0,
         MaximumWorkingSetSize |-> IF IsSome(m) THEN m[1].max ELSE 0,
         PerJobUserTimeLimit |-> 0,
         ActiveProcessLimit |-> 0]

\* the flags set_basic_limits puts into info.LimitFlags
BasicLimitFlags(cpu_time_ms, max_processes) ==
    (IF IsSome(cpu_time_ms) THEN {"JOB_OBJECT_LIMIT_JOB_TIME"} ELSE {})
        \cup (IF IsSome(max_processes) THEN {"JOB_OBJECT_LIMIT_ACTIVE_PROCESS"} ELSE {})

\* SetInformationJobObject(JobObjectBasicLimitInformation) with the zeroed
\* info set_basic_limits fills in: the basic flags are replaced (milliseconds
\* become 100 ns units; the values used here stay far from saturation)
SetInformationJobObject(j, cpu_time_ms, max_processes, extended_kept) ==
    [j EXCEPT
        !.LimitFlags = BasicLimitFlags(cpu_time_ms, max_processes)
                           \cup (IF extended_kept THEN @ \cap ExtendedFlags ELSE {}),
        !.MinimumWorkingSetSize = 0,
        !.MaximumWorkingSetSize = 0,
        !.PerJobUserTimeLimit = IF IsSome(cpu_time_ms) THEN cpu_time_ms[1] * 10000 ELSE 0,
        !.ActiveProcessLimit = IF IsSome(max_processes) THEN max_processes[1] ELSE 0]

JobOthersUnchanged ==
    /\ UNCHANGED <<mtr, cache, vm, jail>>
    /\ UNCHANGED <<imVars, beVars, exVars, fnVars>>

\* ---- create_with_limits up to Job::create_with_limit_info (or
\* create_basic_job when no limit is configured) ----
CreateWithLimitInfo(fail) ==
    /\ job.step = "on"
    /\ job.pc = "create"
    /\ job' = IF fail
              THEN [job EXCEPT !.pc = "returned", !.result = "Internal"]
              ELSE IF ~HasLimits(job.limits)
              THEN [job EXCEPT !.pc = "returned", !.result = "Ok",
                               !.object = LimitInfo(job.limits), !.updates = @ + 1]
              ELSE [job EXCEPT !.pc = "set_basic_limits",
                               !.object = LimitInfo(job.limits), !.updates = @ + 1]
    /\ JobOthersUnchanged

\* ---- set_basic_limits and the return of create_with_limits; on Err the
\* Job is dropped and its handle closed ----
SetBasicLimits(fail, extended_kept) ==
    /\ job.step = "on"
    /\ job.pc = "set_basic_limits"
    /\ LET cpu == job.limits.cpu_time_ms
           procs == job.limits.max_processes
       IN  job' = IF ~IsSome(cpu) /\ ~IsSome(procs)
                  THEN [job EXCEPT !.pc = "returned", !.result = "Ok"]
                  ELSE IF fail
                  THEN [job EXCEPT !.pc = "returned", !.result = "Internal",
                                   !.object = NoJobObject]
                  ELSE [job EXCEPT !.pc = "returned", !.result = "Ok",
                                   !.object = SetInformationJobObject(@, cpu, procs,
                                                                      extended_kept),
                                   !.updates = @ + 1]
    /\ JobOthersUnchanged

NextJob ==
    \/ \E fail \in BOOLEAN : CreateWithLimitInfo(fail)
    \/ \E fail \in BOOLEAN, extended_kept \in BOOLEAN : SetBasicLimits(fail, extended_kept)

InitJob ==
    /\ InitIM
    /\ BackendOff
    /\ ExecutorOff
    /\ img = NoImage /\ plat = NoPlatform /\ glob = NoGlobal
    /\ \E m \in MemoryLimits, c \in CpuLimits, n \in ProcessLimits :
          job = [step |-> "on", pc |-> "create",
                 limits |-> [memory_bytes |-> m, cpu_time_ms |-> c, max_processes |-> n],
                 object |-> NoJobObject, updates |-> 0, result |-> "pending"]
    /\ mtr = NoMetrics /\ cache = NoCache /\ vm = NoVm /\ jail = NoJail

SpecJob == InitJob /\ [][NextJob]_vars

\* C39: once create_with_limits has returned Ok, the job object carries the
\* flag and the value of every configured limit (working set, job CPU time,
\* active processes) together with kill-on-job-close.
C39_AllLimitsInEffect ==
    job.step = "on" /\ job.pc = "returned" /\ job.result = "Ok"
    => /\ "JOB_OBJECT_LIMIT_KILL_ON_JOB_CLOSE" \in job.object.LimitFlags
       /\ IsSome(job.limits.memory_bytes) =>
             /\ "JOB_OBJECT_LIMIT_WORKINGSET" \in job.object.LimitFlags
             /\ job.object.MaximumWorkingSetSize = job.limits.memory_bytes[1]
       /\ IsSome(job.limits.cpu_time_ms) =>
             /\ "JOB_OBJECT_LIMIT_JOB_TIME" \in job.object.LimitFlags
             /\ job.object.PerJobUserTimeLimit = job.limits.cpu_time_ms[1] * 10000
       /\ IsSome(job.limits.max_processes) =>
             /\ "JOB_OBJECT_LIMIT_ACTIVE_PROCESS" \in job.object.LimitFlags
             /\ job.object.ActiveProcessLimit = job.limits.max_processes[1]

(***************************************************************************)
(* LandLock: the code file setup_environment writes and the command        *)
(* execute builds.  A language string is kept as its lower-case form       *)
(* together with its spelling, so that as_str() comparisons (exact) and    *)
(* to_lowercase() differ the way they do on strings.                       *)
(***************************************************************************)

LanguageNames ==
    {"python", "python3", "javascript", "js", "node", "rust", "go", "bash", "sh", "cobol"}

Spellings == {"lower", "Capitalized", "UPPER"}

JailLanguages == [name : LanguageNames, spelling : Spellings]

\* str::to_lowercase
ToLowercase(language) == [language EXCEPT !.spelling = "lower"]

\* the literal "name" of a match arm
Lit(name) == [name |-> name, spelling |-> "lower"]

\* create_code_file: match request.language.as_str()
CreateCodeFile(language) ==
    CASE language \in {Lit("python"), Lit("python3")}             -> "main.py"
      [] language = Lit("rust")                                   -> "main.rs"
      [] language \in {Lit("javascript"), Lit("js"), Lit("node")} -> "main.js"
      [] language = Lit("go")                                     -> "main.go"
      [] OTHER                                                    -> "code"

\* prepare_command: match language.to_lowercase().as_str()
PrepareCommand(language) ==
    LET l == ToLowercase(language)
    IN  CASE l \in {Lit("python"), Lit("python3")} ->
                [ok |-> TRUE, program |-> "python3", args |-> <<"main.py">>]
          [] l \in {Lit("javascript"), Lit("js"), Lit("node")} ->
                [ok |-> TRUE, program |-> "node", args |-> <<"main.js">>]
          [] l = Lit("rust") ->
                [ok |-> TRUE, program |-> "bash",
                 args |-> <<"-c", "rustc main.rs -o main && ./main">>]
          [] l \in {Lit("bash"), Lit("sh")} ->
                [ok |-> TRUE, program |-> "bash", args |-> <<"code">>]
          [] l = Lit("go") ->
                [ok |-> TRUE, program |-> "bash", args |-> <<"-c", "go run main.go">>]
          [] OTHER ->
                [ok |-> FALSE, program |-> "", args |-> <<>>]

NoCommand == [ok |-> FALSE, program |-> "", args |-> <<>>]

\* the file in the execution directory a prepared command reads
CommandFile(cmd) ==
    CASE cmd.args = <<"-c", "rustc main.rs -o main && ./main">> -> "main.rs"
      [] cmd.args = <<"-c", "go run main.go">>                  -> "main.go"
      [] Len(cmd.args) = 1                                      -> cmd.args[1]
      [] OTHER                                                  -> ""

JailOthersUnchanged ==
    /\ UNCHANGED <<mtr, cache, vm, job>>
    /\ UNCHANGED <<imVars, beVars, exVars, fnVars>>

\* ---- JailEnvironment::setup_environment: directory, then the code file ----
SetupEnvironment(fail) ==
    /\ jail.step = "on"
    /\ jail.pc = "setup"
    /\ jail' = CASE fail = "none" ->
                      [jail EXCEPT !.pc = "prepare", !.dir = TRUE,
                                   !.files = {CreateCodeFile(jail.language)}]
                 [] fail = "create_dir" ->
                      [jail EXCEPT !.pc = "returned", !.result = "FileSystemFailed"]
                 [] fail = "write" ->
                      [jail EXCEPT !.pc = "returned", !.dir = TRUE,
                                   !.result = "FileSystemFailed"]
    /\ JailOthersUnchanged

\* ---- SandboxedExecutor::execute: prepare_command ----
JailPrepareCommand ==
    /\ jail.step = "on"
    /\ jail.pc = "prepare"
    /\ LET cmd == PrepareCommand(jail.language)
       IN  jail' = IF cmd.ok
                   THEN [jail EXCEPT !.pc = "spawn", !.command = cmd]
                   ELSE [jail EXCEPT !.pc = "returned", !.result = "UnsupportedLanguage"]
    /\ JailOthersUnchanged

\* ---- the command runs in the execution directory under bwrap; a command
\* whose file is not there ends with a non-zero exit code ----
JailSpawn(code, fail) ==
    /\ jail.step = "on"
    /\ jail.pc = "spawn"
    /\ jail' = IF fail
               THEN [jail EXCEPT !.pc = "returned", !.result = "ProcessFailed"]
               ELSE [jail EXCEPT !.pc = "returned", !.spawned = TRUE,
                                 !.result = "Ok",
                                 !.exit_code = IF CommandFile(jail.command) \in jail.files
                                               THEN code ELSE 2]
    /\ JailOthersUnchanged

NextJail ==
    \/ \E fail \in {"none", "create_dir", "write"} : SetupEnvironment(fail)
    \/ JailPrepareCommand
    \/ \E code \in {0, 1}, fail \in BOOLEAN : JailSpawn(code, fail)

InitJail ==
    /\ InitIM
    /\ BackendOff
    /\ ExecutorOff
    /\ img = NoImage /\ plat = NoPlatform /\ glob = NoGlobal
    /\ \E l \in JailLanguages :
          jail = [step |-> "on", pc |-> "setup", language |-> l, dir |-> FALSE,
                  files |-> {}, command |-> NoCommand, spawned |-> FALSE,
                  result |-> "pending", exit_code |-> 0]
    /\ mtr = NoMetrics /\ cache = NoCache /\ vm = NoVm /\ job = NoJob

SpecJail == InitJail /\ [][NextJail]_vars

\* C40: for every language the LandLock dispatch accepts, in any spelling,
\* the file the spawned command reads is the code file setup_environment
\* wrote: main.py, main.js, main.rs, main.go, or code for bash and sh.
C40_CommandRunsCodeFile ==
    jail.step = "on" /\ jail.spawned
    => /\ jail.files = {CommandFile(jail.command)}
       /\ CommandFile(jail.command) =
             CASE jail.language.name \in {"python", "python3"}         -> "main.py"
               [] jail.language.name \in {"javascript", "js", "node"}  -> "main.js"
               [] jail.language.name = "rust"                          -> "main.rs"
               [] jail.language.name = "go"                            -> "main.go"
               [] OTHER                                                -> "code"

(***************************************************************************)
(* Properties of the instance manager.                                     *)
(***************************************************************************)
\* the handles to backend object b that tasks obtained and have not released
Holders(b) == LET RECURSIVE Sum(_)
                  Sum(S) == IF S = {} THEN 0
                            ELSE LET p == CHOOSE q \in S : TRUE
                                 IN held[p][b] + Sum(S \ {p})
              IN Sum(Procs)

\* the step is the first step of a call of operation o by an idle task
Called(o) == out'.task \in Procs /\ task[out'.task].pc = "idle" /\ out'.op = o

\* the step is task p leaving position c
Leaves(p, c) == task[p].pc = c /\ task'[p] # task[p]

\* C1: every registered instance has ref_count >= 0, and an instance on
\* which remove or shutdown runs cleanup() after taking it out of the
\* registry has ref_count 0 at that moment.
C1_EvictedOnlyUnreferenced ==
    /\ [](\A id \in DOMAIN instances : instances[id].ref_count >= 0)
    /\ [][\A p \in Procs :
            /\ Leaves(p, "rm_wait") /\ task'[p].pc = "idle"
                    => \A e \in task[p].managed : e.m.ref_count = 0
            /\ Leaves(p, "sd_cleanup")
                    => \A e \in task[p].managed : e.m.ref_count = 0]_vars

\* C2: a register that returns Ok found no entry of its id in the registry
\* at the time it inserted, and no step of a register changes an entry that
\* is already there.
C2_RegisterNeverReplaces ==
    [][out'.op = "register" =>
            /\ out'.tag = "Ok" => out'.arg \notin DOMAIN instances
            /\ \A id \in DOMAIN instances :
                    id \in DOMAIN instances' /\ instances'[id] = instances[id]]_vars

\* C3: a get that returns a handle leaves the ref_count of its instance one
\* higher than it was; a release of a registered instance with ref_count > 0
\* takes exactly that one off again, and a release never takes ref_count
\* below 0.
C3_GetReleaseRefCount ==
    [][/\ (out'.op = "get" /\ out'.tag = "Ok") =>
            /\ out'.arg \in DOMAIN instances
            /\ out'.arg \in DOMAIN instances'
            /\ instances'[out'.arg].ref_count = instances[out'.arg].ref_count + 1
       /\ (out'.op = "release" /\ out'.arg \in DOMAIN instances) =>
            /\ out'.arg \in DOMAIN instances'
            /\ instances'[out'.arg].ref_count >= 0
            /\ instances'[out'.arg].ref_count =
                  IF instances[out'.arg].ref_count > 0
                  THEN instances[out'.arg].ref_count - 1 ELSE 0]_vars

\* C4: a remove that waits for references sees them go: once every holder
\* of the removed backend has released, the ref_count remove polls is 0 (so
\* it stops polling); and it runs cleanup() only when that ref_count is 0 or
\* after the 30th poll.
C4_RemoveWaitsForRelease ==
    /\ [](\A p \in Procs :
            (task[p].pc = "rm_wait" /\ Holders(RemoveManaged(p).backend) = 0)
                => RemoveManaged(p).ref_count = 0)
    /\ [][\A p \in Procs :
            (Leaves(p, "rm_wait") /\ task'[p].pc = "idle")
                => \/ RemoveManaged(p).ref_count = 0
                   \/ task[p].attempts = MaxRemoveAttempts]_vars

\* C5: a get returns a handle only for a backend whose most recent health
\* probe (the initial probe of register included) reported healthy; a get
\* that fails with BackendUnavailable leaves the registry as it is.
C5_GetOnlyHealthy ==
    [][/\ (out'.op = "get" /\ out'.tag = "Ok") => lastProbe'[out'.handle] = "healthy"
       /\ (out'.op = "get" /\ out'.tag = "BackendUnavailable") => instances' = instances]_vars

\* C6: every instance a cleanup_idle call takes out of the registry is, at
\* that moment, idle for longer than max_idle_time and has ref_count 0.
C6_CleanupIdleOnlyIdle ==
    [][out'.op = "cleanup_idle" =>
            \A id \in (DOMAIN instances) \ (DOMAIN instances') :
                /\ instances[id].ref_count = 0
                /\ now - instances[id].last_accessed > MaxIdleTime]_vars

\* C28: a get that returns a handle has, in the step that returns it,
\* incremented the ref_count of a registry entry that holds the backend of
\* that handle; a get whose entry was taken away by a racing remove,
\* cleanup_idle or shutdown fails instead.
C28_GetCountsItsHandle ==
    [][(out'.op = "get" /\ out'.tag = "Ok") =>
            \E id \in (DOMAIN instances) \cap (DOMAIN instances') :
                /\ instances[id].backend = out'.handle
                /\ instances'[id].backend = out'.handle
                /\ instances'[id].ref_count = instances[id].ref_count + 1]_vars

\* the positions at which an operation is suspended in an await: the health
\* check of register and get, the sleep and the cleanup() of remove, the
\* cleanup() of cleanup_idle and shutdown, the probes of health_check_all
AwaitPositions == {"reg_insert", "get_probe", "rm_wait", "ci_cleanup", "sd_cleanup", "hc_run"}

\* C29: no task holds a guard of the registry lock between two steps of its
\* operation; in particular none is held while register, get, remove,
\* health_check_all, cleanup_idle or shutdown is suspended in a backend
\* operation or a sleep.
C29_NoGuardAcrossAwait ==
    \A p \in Procs : lock[p] = "none"

\* one task sleeps in the wait loop of remove after its write-locked block
\* while the other awaits the in-line health check of get after its two
\* read-locked blocks
C29_Witness ==
    /\ \E p \in Procs : task[p].pc = "rm_wait"
    /\ \E p \in Procs : task[p].pc = "get_probe"
    /\ \A p \in Procs : task[p].pc \in AwaitPositions /\ lock[p] = "none"

\* get_instance_health(id) of a registered instance: managed.last_health
GetInstanceHealth(m, id) == m[id].last_health

\* C34: when health_check_all returns, the stored health of every instance
\* of its snapshot that is still registered is the status the result map
\* reports for it, so get_instance_health(id) answers that status.
C34_HealthCheckAllStores ==
    [][\A p \in Procs :
            Leaves(p, "hc_run") =>
                \A id \in (DOMAIN out'.health) \cap (DOMAIN instances') :
                    GetInstanceHealth(instances', id) = out'.health[id]]_vars

\* C7: a get for an id that is not in the registry returns
\* InstanceNotFound{name: id} and leaves the registry unchanged.
C7_GetUnknownNotFound ==
    [][(Called("get") /\ out'.arg \notin DOMAIN instances) =>
            /\ out'.tag = "InstanceNotFound"
            /\ out'.name = out'.arg
            /\ task'[out'.task].pc = "idle"
            /\ instances' = instances]_vars

\* C7 witness: a get of an id that was registered and removed again has
\* just returned InstanceNotFound
C7_Witness ==
    /\ out.op = "get"
    /\ out.tag = "InstanceNotFound"
    /\ out.arg \notin DOMAIN instances
    /\ \E b \in 1..Len(backendId) : backendId[b] = out.arg /\ b \in cleaned

\* C8: while an id is visible (its register returned Ok and no remove,
\* cleanup_idle or shutdown has taken it out since), a get of it does not
\* return InstanceNotFound and list_instances contains it.
C8_RegisteredIsFound ==
    [][/\ (Called("get") /\ out'.arg \in visible) => out'.tag # "InstanceNotFound"
       /\ Called("list_instances") => visible \subseteq out'.list]_vars

\* C8 witness: a get of a visible id has returned its handle
C8_Witness ==
    /\ out.op = "get"
    /\ out.tag = "Ok"
    /\ out.arg \in visible
    /\ out.handle = instances[out.arg].backend

\* no task other than p is inside a call
OthersIdle(p) == \A q \in Procs \ {p} : task[q].pc = "idle"

====
